---- MODULE Spec2Model ----
(***************************************************************************)
(* State-machine model of the regime-gated strategy arbitration and the    *)
(* position lifecycle of the momentum bot (src/main_bot3.py and            *)
(* src/momentum_bot/), with the live iron-condor loop of                   *)
(* src/mch_bot/engine.py.                                                  *)
(*                                                                         *)
(* Money is kept in paise (1/100 rupee), percentages in whole percent and  *)
(* the regime confidence in 1/10000; the date is a day number whose        *)
(* weekday is (day % 7), day 0 being a Monday.                             *)
(***************************************************************************)
EXTENDS Integers, Sequences, FiniteSets, TLC

VARIABLES
    \* MasterPortfolioController (master_controller.py:40-43)
    current_regime,
    regime_stability_count,
    active_strategy,
    \* what the callers of the controller hold and observed
    data,               \* the snapshot in hand (main_bot3.py:154)
    snap_evals,         \* controller evaluations of the snapshot in hand
    seen,               \* regimes of the last three snapshots given to the controller
    consec,             \* length of the current run of equal regimes in them
    last_call           \* the last can_trade answer

mcvars == <<current_regime, regime_stability_count, active_strategy,
            data, snap_evals, seen, consec, last_call>>

VARIABLES
    today,              \* the local calendar day (datetime.now().date())
    partial_exit_pct,   \* config exit.partial_exit_pct, in percent
    capital,            \* config capital (RiskManager.capital), in paise
    telegram_mode,      \* config telegram.override_mode
    \* PositionManager (position_manager.py:40-41)
    positions,          \* PositionManager.positions, by position number
    position_counter,
    \* RiskManager (risk_manager.py:52-58)
    daily_loss, weekly_loss, current_day, week_start, active_positions,
    \* MomentumBot.run (main_bot3.py:144-171)
    pc,                 \* "sleep" between cycles, "cycle" inside one
    exit_queue,         \* positions check_exits has still to visit
    \* what the broker and an observer of the loop saw
    orders,             \* result of place_order for the positions held
    cycle,              \* the current or last scan cycle
    close_order,        \* the close_position call of the last exit check
    loss_ledger         \* the losing exits by the day they were recorded on

pmvars == <<positions, position_counter>>
rmvars == <<daily_loss, weekly_loss, current_day, week_start, active_positions>>
cfgvars == <<partial_exit_pct, capital, telegram_mode>>
obsvars == <<orders, cycle, close_order, loss_ledger>>
botvars == <<today, cfgvars, pmvars, rmvars, pc, exit_queue, obsvars>>

VARIABLES
    \* mch_bot/engine.py: the state file of the iron-condor live loop
    ic_state,
    ic_last,            \* what the last iteration of run_live_loop did
    ic_clock,           \* the minutes since the market opened on this day
    ic_cfg,             \* execution.cooldown_minutes and .max_trades_per_day
    ic_notifier,        \* mch_bot/notifications.py: the NotificationManager
    \* a call of ExitHandler.check_exits: its arguments and its answer
    exit_call,
    \* a call of RiskManager.validate_entry: its arguments and its answer
    risk_call,
    \* a call of build_iron_condor_balanced: its arguments and its answer
    condor_call,
    \* a call of another function of the code base: its arguments and answer
    pure_call

icvars == <<ic_state, ic_last, ic_clock, ic_cfg, ic_notifier>>
callvars == <<exit_call, risk_call, condor_call, pure_call>>

vars == <<mcvars, botvars, icvars, callvars>>

-----------------------------------------------------------------------------
(* Bounds of the model *)

\* increments of regime_stability_count explored from each base value
MaxStability == 3
\* evaluations of one snapshot explored
MaxEvals == 2
\* longest run of equally classified snapshots explored
MaxConsec == 4
\* first and last calendar day explored (day 0 is a Monday)
StartDay == 1
MaxDay == 2
\* positions the position manager creates
MaxCreated == 2

-----------------------------------------------------------------------------
(* Configuration read by the classifier (config.py:203-216) *)

regime_adx_trending == 25
regime_adx_ranging == 20
regime_vix_volatile == 20
regime_atr_percentile_high == 80

\* stability a manual override installs (master_controller.py:230)
ForcedStability == 10
\* consecutive bars a can_trade check requires (master_controller.py:149)
RequiredStability == 2

NoRegime == "None"
MarketRegime == {"TRENDING", "RANGING", "VOLATILE", "CHOPPY", "UNKNOWN"}
NoData == [none |-> TRUE]
NoDecision == [none |-> TRUE]
NoCall == [bot |-> 0, can_trade |-> FALSE, enabled |-> FALSE, reason |-> "none"]

Abs(x) == IF x < 0 THEN 0 - x ELSE x
Min(a, b) == IF a < b THEN a ELSE b
Max(a, b) == IF a > b THEN a ELSE b

\* The market snapshots the data feed can deliver (market_data.py get_latest).
AdxValues == {15, 30}
VixValues == {14, 25}
AtrPctValues == {50}
DiValues == {<<30, 10>>, <<10, 30>>, <<20, 18>>}
SpotValues == {23400, 23600}
RsiValues == {50, 80}
IvPctValues == {15, 30, 60}
Snapshots ==
    [adx : AdxValues, vix : VixValues, atr_percentile : AtrPctValues,
     di : DiValues, spot : SpotValues, ema_20 : {23500}, atr : {100},
     rsi : RsiValues, iv_percentile : IvPctValues]
\* one snapshot for every value of the fields the classifier reads
RegimeSnapshots ==
    {md \in Snapshots : md.spot = 23600 /\ md.rsi = 50 /\ md.iv_percentile = 30}
\* the markets the scan cycle is run against: a bullish trend with every
\* entry factor, the same trend after the spot fell through the EMA, a
\* bearish trend and a volatile market
Bullish == [adx |-> 30, vix |-> 14, atr_percentile |-> 50, di |-> <<30, 10>>,
            spot |-> 23600, ema_20 |-> 23500, atr |-> 100, rsi |-> 50,
            iv_percentile |-> 30]
BotSnapshots ==
    { Bullish,
      [Bullish EXCEPT !.spot = 23400],
      [Bullish EXCEPT !.di = <<10, 30>>, !.spot = 23400],
      [Bullish EXCEPT !.vix = 25] }

-----------------------------------------------------------------------------
(* RegimeClassifier *)

\* a variant that looks for a trend before it looks at the volatility
classify_TrendFirst(md) ==
    LET directional_diff == Abs(md.di[1] - md.di[2])
    IN  IF md.adx > regime_adx_trending /\ md.vix < regime_vix_volatile
           /\ directional_diff > 10
        THEN "TRENDING"
        ELSE IF md.vix > regime_vix_volatile
                \/ md.atr_percentile > regime_atr_percentile_high
        THEN "VOLATILE"
        ELSE IF md.adx < regime_adx_ranging /\ md.vix < regime_vix_volatile
                /\ directional_diff < 5
        THEN "RANGING"
        ELSE "CHOPPY"

classify(md) ==
    LET directional_diff == Abs(md.di[1] - md.di[2])
    IN  IF md.vix > regime_vix_volatile
           \/ md.atr_percentile > regime_atr_percentile_high
        THEN "VOLATILE"
        ELSE IF md.adx > regime_adx_trending /\ md.vix < regime_vix_volatile
                /\ directional_diff > 10
        THEN "TRENDING"
        ELSE IF md.adx < regime_adx_ranging /\ md.vix < regime_vix_volatile
                /\ directional_diff < 5
        THEN "RANGING"
        ELSE "CHOPPY"

\* the two sub-scores of a regime in 1/100 (regime_classifier.py:125-139),
\* clamped on the one side the code clamps them; CHOPPY has none
RegimeSubScores(md) ==
    LET regime == classify(md)
    IN  CASE regime = "TRENDING" ->
                <<Min(((md.adx - regime_adx_trending) * 100) \div 20, 100),
                  Min((Abs(md.di[1] - md.di[2]) * 100) \div 20, 100)>>
          [] regime = "RANGING" ->
                <<Max(100 - ((md.adx * 100) \div regime_adx_ranging), 0),
                  Max(100 - ((md.vix * 100) \div regime_vix_volatile), 0)>>
          [] regime = "VOLATILE" ->
                <<Min(((md.vix - regime_vix_volatile) * 100) \div 10, 100),
                  Min(md.atr_percentile, 100)>>
          [] OTHER -> <<>>

\* confidence in 1/10000: 0.3 + 0.35 * first + 0.35 * second, then the
\* clamp of line 145
get_regime_confidence(md) ==
    LET sub == RegimeSubScores(md)
        c == IF sub = <<>> THEN 3000
             ELSE 3000 + (35 * sub[1]) + (35 * sub[2])
    IN  Max(0, Min(10000, c))

-----------------------------------------------------------------------------
(* MasterPortfolioController *)

\* a variant that counts calls without resetting on a regime change
StabilityAfter_NoReset(regime, cur, count) == count + 1
\* master_controller.py:71-76
StabilityAfter(regime, cur, count) ==
    IF regime = cur THEN count + 1 ELSE 1

\* a variant of the table that lets the iron condor trade in a trend too
Bot2Enabled_Volatile(regime) == regime \in {"RANGING", "VOLATILE", "TRENDING"}
\* master_controller.py:78-107, the decision table
Bot2Enabled(regime) == regime \in {"RANGING", "VOLATILE"}
\* a variant of the table that lets the momentum bot trade a choppy market
Bot3Enabled_Choppy(regime) == regime \in {"TRENDING", "CHOPPY"}
Bot3Enabled(regime) == regime = "TRENDING"

Decision(md, stability) ==
    LET regime == classify(md)
    IN  [bot_2_iron_condor |-> Bot2Enabled(regime),
         bot_3_momentum    |-> Bot3Enabled(regime),
         regime            |-> regime,
         confidence        |-> get_regime_confidence(md),
         stability         |-> stability]

\* master_controller.py:135-175: the answer of should_bot_N_trade
IsStable(stability) == stability >= RequiredStability

CanTrade(bot, decision) ==
    LET enabled == IF bot = 3 THEN decision.bot_3_momentum
                   ELSE decision.bot_2_iron_condor
    IN  [bot       |-> bot,
         enabled   |-> enabled,
         can_trade |-> enabled /\ IsStable(decision.stability),
         reason    |-> IF ~enabled THEN "disabled"
                       ELSE IF IsStable(decision.stability) THEN "active"
                       ELSE "waiting"]

\* the counter is explored MaxStability steps up from 0 and from ForcedStability
StabilityBounded(n) ==
    \/ n <= MaxStability
    \/ n > ForcedStability /\ n <= ForcedStability + MaxStability

\* what the observer records when a snapshot reaches the controller
SeenAfter(md, first) ==
    IF ~first THEN seen
    ELSE IF Len(seen) < 3 THEN Append(seen, classify(md))
    ELSE Append(Tail(seen), classify(md))
ConsecAfter(md, first) ==
    IF ~first THEN consec
    ELSE IF Len(seen) > 0 /\ seen[Len(seen)] = classify(md)
         THEN consec + 1 ELSE 1

\* determine_active_strategy (master_controller.py:52-116) on snapshot md
Determine(md) ==
    LET n == StabilityAfter(classify(md), current_regime, regime_stability_count)
    IN  /\ StabilityBounded(n)
        /\ regime_stability_count' = n
        /\ current_regime' = classify(md)
        /\ active_strategy' = Decision(md, n)

\* the observer's record of the snapshot the controller is given;
\* first: the snapshot has not been given to the controller before
Observe(md, first) ==
    /\ ConsecAfter(md, first) <= MaxConsec
    /\ seen' = SeenAfter(md, first)
    /\ consec' = ConsecAfter(md, first)

FetchSnapshot(md) ==
    /\ data' = md
    /\ snap_evals' = 0
    /\ UNCHANGED <<current_regime, regime_stability_count, active_strategy,
                   seen, consec, last_call>>

DetermineActiveStrategy ==
    /\ data # NoData
    /\ snap_evals < MaxEvals
    /\ Determine(data)
    /\ Observe(data, snap_evals = 0)
    /\ snap_evals' = snap_evals + 1
    /\ UNCHANGED <<data, last_call>>

ShouldBotTrade(bot) ==
    /\ data # NoData
    /\ snap_evals < MaxEvals
    /\ Determine(data)
    /\ Observe(data, snap_evals = 0)
    /\ snap_evals' = snap_evals + 1
    /\ last_call' = CanTrade(bot, active_strategy')
    /\ UNCHANGED data

should_bot_3_trade == ShouldBotTrade(3)
should_bot_2_trade == ShouldBotTrade(2)

\* master_controller.py:212-231
force_regime_override(regime) ==
    /\ current_regime' = regime
    /\ regime_stability_count' = ForcedStability
    /\ UNCHANGED <<active_strategy, data, snap_evals, seen, consec, last_call>>

\* a can_trade check on a snapshot that is given to the controller once
EvalOnce(md, bot) ==
    /\ Determine(md)
    /\ Observe(md, TRUE)
    /\ data' = md
    /\ snap_evals' = 1
    /\ last_call' = CanTrade(bot, active_strategy')

-----------------------------------------------------------------------------
(* Configuration of the momentum bot (momentum_bot/core/config.py).        *)
(* Percentages are whole percent, money is paise.                          *)

DefaultCapital == 10000000
max_capital_per_trade_base == 35
max_capital_per_trade_mid == 40
max_capital_per_trade_max == 45
risk_weekend_max_capital == 30
max_loss_per_trade == 1500000
max_daily_loss == 2000000
max_weekly_loss == 4000000
max_positions == 2
instrument_lot_size == 75
entry_dte_min == 10
entry_dte_max == 14
entry_strike_distance_min == 250
entry_strike_distance_max == 350
entry_adx_threshold == 25
entry_rsi_max == 70
entry_iv_percentile_max == 50
entry_min_confidence == 70
exit_profit_target_pct == 75
exit_stop_loss_pct == 30
exit_time_exit_dte == 4
exit_iv_crush_threshold == 10
exit_wednesday_exit == TRUE
exit_trailing_method == "ema_20"
\* the partial-exit percentages a configuration may hold (config.py:169-170
\* reads the value without validating it)
PartialExitPcts == {50, 100}

PositionStatus == {"PENDING", "ACTIVE", "PARTIAL_EXIT", "CLOSED", "FAILED"}
StatusRank(st) ==
    CASE st = "PENDING" -> 0 [] st = "ACTIVE" -> 1 [] st = "PARTIAL_EXIT" -> 2
      [] st = "CLOSED" -> 3 [] OTHER -> 4

Weekday(day) == day % 7
\* n / d rounded to the nearest integer, n >= 0, d > 0
RoundDiv(n, d) == ((2 * n) + d) \div (2 * d)

-----------------------------------------------------------------------------
(* MomentumDetector (momentum_detector.py:42-159) *)

BullishFactors(md) ==
    LET trend == md.adx > entry_adx_threshold /\ md.spot > md.ema_20
                 /\ md.di[1] > md.di[2]
    IN  [trend |-> trend,
         rsi |-> md.rsi < entry_rsi_max,
         iv_percentile |-> md.iv_percentile < entry_iv_percentile_max]

BearishFactors(md) ==
    LET trend == md.adx > entry_adx_threshold /\ md.spot < md.ema_20
                 /\ md.di[2] > md.di[1]
    IN  [trend |-> trend,
         rsi |-> md.rsi > 100 - entry_rsi_max,
         iv_percentile |-> md.iv_percentile < entry_iv_percentile_max]

AllFactors(f) == f.trend /\ f.rsi /\ f.iv_percentile
detect_bullish_momentum(md) == AllFactors(BullishFactors(md))
detect_bearish_momentum(md) == AllFactors(BearishFactors(md))

-----------------------------------------------------------------------------
(* ConfidenceScorer (confidence_scorer.py:37-253); scores in 1/10000 point *)

FactorScore(f) ==
    LET satisfied == (IF f.trend THEN 1 ELSE 0) + (IF f.rsi THEN 1 ELSE 0)
                     + (IF f.iv_percentile THEN 1 ELSE 0)
    IN  (satisfied * 1000000) \div 3

AdxScore(adx) ==
    IF adx < 20 THEN 300000
    ELSE IF adx < 25 THEN 300000 + ((adx - 20) * 60000)
    ELSE IF adx < 40 THEN 600000 + ((adx - 25) * 23300)
    ELSE Min(950000 + ((adx - 40) * 5000), 1000000)

VixScore(vix) ==
    IF vix < 12 THEN 950000
    ELSE IF vix < 16 THEN 950000 - ((vix - 12) * 50000)
    ELSE IF vix < 20 THEN 750000 - ((vix - 16) * 62500)
    ELSE IF vix < 30 THEN 500000 - ((vix - 20) * 30000)
    ELSE Max(200000 - ((vix - 30) * 20000), 0)

RsiScore(rsi) ==
    IF 40 <= rsi /\ rsi <= 60 THEN 1000000
    ELSE IF 30 <= rsi /\ rsi < 40 THEN 600000 + ((rsi - 30) * 40000)
    ELSE IF 60 < rsi /\ rsi <= 70 THEN 1000000 - ((rsi - 60) * 40000)
    ELSE IF rsi < 30 THEN Max(300000 + (rsi * 10000), 0)
    ELSE Max(1000000 - ((rsi - 70) * 10000), 0)

\* calculate(market_data, momentum_factors, regime_confidence)
ConfidenceScore(md, factors, regime_confidence) ==
    LET total == (25 * (regime_confidence * 100)) + (30 * FactorScore(factors))
                 + (20 * AdxScore(md.adx)) + (15 * VixScore(md.vix))
                 + (10 * RsiScore(md.rsi))
    IN  Max(0, Min(1000000, total \div 100))

should_take_trade(confidence) == confidence >= entry_min_confidence * 10000

-----------------------------------------------------------------------------
(* RiskManager (risk_manager.py) *)

WeekStart(day) == day - Weekday(day)

\* _update_loss_counters (risk_manager.py:278-297): the lazy resets
DailyLossAt(day, loss, cur_day) == IF day # cur_day THEN 0 ELSE loss
WeeklyLossAt(day, loss, wk_start) == IF WeekStart(day) # wk_start THEN 0 ELSE loss

\* calculate_position_size (risk_manager.py:69-123); the model's days do not
\* include the budget day of _is_major_event_pending
calculate_position_size(confidence, day) ==
    LET byConfidence ==
            IF confidence >= 850000 THEN max_capital_per_trade_max
            ELSE IF confidence >= 700000 THEN max_capital_per_trade_mid
            ELSE max_capital_per_trade_base
        allocation ==
            IF Weekday(day) = 4 THEN Min(byConfidence, risk_weekend_max_capital)
            ELSE byConfidence
    IN  (capital * allocation) \div 100

PositionRisk(p) == Abs(p.quantity * (p.entry_premium - p.stop_loss))

\* variant of validate_entry: the risk and the capital of the proposed
\* position are looked at before the number of positions
validate_entry_RiskFirst(p, daily, weekly, active, exposure) ==
    IF daily >= max_daily_loss THEN "daily_loss"
    ELSE IF weekly >= max_weekly_loss THEN "weekly_loss"
    ELSE IF PositionRisk(p) > max_loss_per_trade THEN "position_risk"
    ELSE IF exposure + (p.quantity * p.entry_premium) > capital THEN "capital"
    ELSE IF active >= max_positions THEN "max_positions"
    ELSE "ok"

\* validate_entry (risk_manager.py:125-166) after the counters were updated:
\* the reason of the rejection, or "ok"
validate_entry(p, daily, weekly, active, exposure) ==
    IF daily >= max_daily_loss THEN "daily_loss"
    ELSE IF weekly >= max_weekly_loss THEN "weekly_loss"
    ELSE IF active >= max_positions THEN "max_positions"
    ELSE IF PositionRisk(p) > max_loss_per_trade THEN "position_risk"
    ELSE IF exposure + (p.quantity * p.entry_premium) > capital THEN "capital"
    ELSE "ok"

\* should_close_all_positions (risk_manager.py:338-361) after the update
should_close_all_positions(daily, weekly) ==
    daily >= max_daily_loss \/ weekly >= max_weekly_loss

\* get_risk_status()['can_take_position'] (risk_manager.py:241-243)
can_take_position(daily, weekly, active) ==
    active < max_positions /\ daily < max_daily_loss /\ weekly < max_weekly_loss

-----------------------------------------------------------------------------
(* PositionManager (position_manager.py) *)

\* _select_strike (position_manager.py:286-325); spots are multiples of 50
select_strike(spot, direction) ==
    LET target_otm == (entry_strike_distance_min + entry_strike_distance_max) \div 2
        target == IF direction = "CALL" THEN spot + target_otm ELSE spot - target_otm
    IN  RoundDiv(target, 50) * 50

\* _find_expiry (position_manager.py:327-370): days to the chosen Thursday
find_expiry_dte(day) ==
    LET d0 == (3 - Weekday(day)) % 7
        days_until_thursday == IF d0 = 0 THEN 7 ELSE d0
    IN  IF days_until_thursday < entry_dte_min THEN days_until_thursday + 7
        ELSE days_until_thursday

\* _estimate_premium (position_manager.py:372-407), in paise
estimate_premium(spot, strike, dte, iv_percentile) ==
    LET otm_distance == Abs(strike - spot)
        base2 == Max(100, 1000 - (otm_distance * 3))   \* twice the rupee base
    IN  RoundDiv(base2 * 50 * dte * (50 + iv_percentile), 14 * 100)

\* the position dict enter_position builds (position_manager.py:67-135)
NewPosition(id, direction, md, confidence, day) ==
    LET position_value == calculate_position_size(confidence, day)
        strike == select_strike(md.spot, direction)
        dte == find_expiry_dte(day)
        premium == estimate_premium(md.spot, strike, dte, md.iv_percentile)
        lots == Max(1, position_value \div (premium * instrument_lot_size))
        quantity == lots * instrument_lot_size
    IN  [position_id |-> id,
         option_type |-> direction,
         expiry_date |-> day + dte,
         expiry_str |-> day + dte,
         quantity |-> quantity,
         entry_premium |-> premium,
         entry_spot |-> md.spot,
         entry_time |-> day,
         entry_iv |-> md.iv_percentile,
         stop_loss |-> (premium * (100 - exit_stop_loss_pct)) \div 100,
         status |-> "PENDING",
         partial_exit_done |-> FALSE,
         partial_exit_quantity |-> 0,
         remaining_quantity |-> quantity,
         realized_pnl |-> 0,
         exit_premium |-> -1]

\* a variant that exits the truncated share without rounding it to whole lots
PartialExitQuantity_Unrounded(remaining, pct) == (remaining * pct) \div 100

\* exit_position, PARTIAL_EXIT branch (position_manager.py:182-223)
PartialExitQuantity(remaining, pct) ==
    (((remaining * pct) \div 100) \div instrument_lot_size) * instrument_lot_size

\* a variant that rolls the position to the next weekly expiry
ApplyPartialExit_Rolls(p, pct, premium) ==
    [p EXCEPT !.partial_exit_done = TRUE,
              !.expiry_date = @ + 7,
              !.expiry_str = @ + 7]

ApplyPartialExit(p, pct, premium) ==
    LET exit_quantity == PartialExitQuantity(p.remaining_quantity, pct)
    IN  IF exit_quantity = 0 THEN p
        ELSE [p EXCEPT
                !.partial_exit_done = TRUE,
                !.partial_exit_quantity = @ + exit_quantity,
                !.remaining_quantity = @ - exit_quantity,
                !.realized_pnl = @ + ((premium - p.entry_premium) * exit_quantity),
                !.stop_loss = p.entry_premium]

\* a variant that keeps the P&L of the last leg only
ApplyFullExit_LastLegOnly(p, premium) ==
    [p EXCEPT
        !.status = "CLOSED",
        !.exit_premium = premium,
        !.realized_pnl = (premium - p.entry_premium) * p.remaining_quantity,
        !.remaining_quantity = 0]

\* exit_position, EXIT_ALL branch (position_manager.py:225-235)
ApplyFullExit(p, premium) ==
    [p EXCEPT
        !.status = "CLOSED",
        !.exit_premium = premium,
        !.realized_pnl = @ + ((premium - p.entry_premium) * p.remaining_quantity),
        !.remaining_quantity = 0]

\* the result exit_position returns for EXIT_ALL (position_manager.py:236-262)
ExitAllResult(p, premium) ==
    [success |-> TRUE,
     position_id |-> p.position_id,
     action |-> "EXIT_ALL",
     exit_quantity |-> p.remaining_quantity,
     exit_premium |-> premium,
     pnl |-> ApplyFullExit(p, premium).realized_pnl]

\* update_position_pnl (position_manager.py:272-284) writes current_premium
\* and unrealized_pnl, which nothing but the status summary reads; the two
\* fields are left out of the position record.

-----------------------------------------------------------------------------
(* ExitHandler (exit_handler.py) *)

days_to_expiry(expiry_date, day) == Max(0, expiry_date - day)

momentum_reversed(p, md) ==
    IF p.option_type = "CALL"
    THEN md.spot < md.ema_20 /\ md.di[2] > md.di[1]
    ELSE p.option_type = "PUT" /\ md.spot > md.ema_20 /\ md.di[1] > md.di[2]

\* premium <= _calculate_trailing_stop(...) (exit_handler.py:291-338)
TrailingStopHit(p, md, premium, method) ==
    IF method = "ema_20"
    THEN \/ premium <= p.entry_premium
         \/ premium * 2 * p.entry_spot <= p.entry_premium * (p.entry_spot + md.spot)
    ELSE IF method = "atr_1.5"
    THEN premium <= p.entry_premium \/ md.atr <= 0
    ELSE premium <= p.entry_premium

Hold == [action |-> "HOLD", reason |-> "green", percentage |-> 0]
ExitAll(reason) == [action |-> "EXIT_ALL", reason |-> reason, percentage |-> 0]

\* check_exits (exit_handler.py:56-153) at date day; wed2pm: the wall clock
\* is Wednesday at or after 14:00
ProfitTaking(p, md, premium, pct, method) ==
    IF (premium - p.entry_premium) * 100 >= exit_profit_target_pct * p.entry_premium
       /\ premium > p.entry_premium
    THEN IF ~p.partial_exit_done
         THEN [action |-> "PARTIAL_EXIT", reason |-> "profit_target", percentage |-> pct]
         ELSE IF TrailingStopHit(p, md, premium, method)
              THEN ExitAll("trailing_stop") ELSE Hold
    ELSE Hold

\* a variant that looks at the profit before the time exit
check_exits_ProfitFirst(p, md, premium, day, wed2pm, pct, method) ==
    IF ProfitTaking(p, md, premium, pct, method) # Hold
    THEN ProfitTaking(p, md, premium, pct, method)
    ELSE IF days_to_expiry(p.expiry_date, day) <= exit_time_exit_dte
    THEN ExitAll("time_exit")
    ELSE Hold

check_exits(p, md, premium, day, wed2pm, pct, method) ==
    LET dte == days_to_expiry(p.expiry_date, day)
        iv_drop == Max(0, p.entry_iv - md.iv_percentile)
        is_loss == premium < p.entry_premium
        loss100 == IF is_loss THEN (p.entry_premium - premium) * 100 ELSE 0
    IN  IF dte <= exit_time_exit_dte THEN ExitAll("time_exit")
        ELSE IF exit_wednesday_exit /\ wed2pm /\ day - p.entry_time <= 2
        THEN ExitAll("wednesday")
        ELSE IF iv_drop > exit_iv_crush_threshold THEN ExitAll("iv_crush")
        ELSE IF loss100 >= exit_stop_loss_pct * p.entry_premium THEN ExitAll("stop_loss")
        ELSE IF loss100 > 15 * p.entry_premium /\ momentum_reversed(p, md)
        THEN ExitAll("momentum_reversal")
        ELSE ProfitTaking(p, md, premium, pct, method)

-----------------------------------------------------------------------------
\* fetched: a snapshot was fetched; open: the positions open at that time;
\* checked: those the exit handler was asked about; created: the position
\* entered (0: none); closed: the position dicts closed in the cycle;
\* kill_switch: should_close_all_positions was evaluated; verdict: what
\* validate_entry answered to enter_position ("none": it was not asked);
\* confirmation: what became of the request for a manual confirmation;
\* closing: the positions for which check_exits called close_position,
\* kept until check_entries returns
NoCycle == [fetched |-> FALSE, open |-> {}, checked |-> {}, created |-> 0,
            closed |-> {}, kill_switch |-> FALSE, verdict |-> "none",
            confirmation |-> "not_asked", closing |-> {}]

\* no close_position call in the last exit check
NoOrder == [none |-> TRUE]

\* the losses an observer books on the day and in the week of the exit
NoLosses == [day |-> StartDay, daily |-> 0, week |-> WeekStart(StartDay), weekly |-> 0]
LedgerAfter(ledger, day, pnl) ==
    IF pnl >= 0 THEN ledger
    ELSE [day |-> day,
          daily |-> (IF ledger.day = day THEN ledger.daily ELSE 0) + Abs(pnl),
          week |-> WeekStart(day),
          weekly |-> (IF ledger.week = WeekStart(day) THEN ledger.weekly ELSE 0)
                         + Abs(pnl)]
LedgerDaily(day) == IF loss_ledger.day = day THEN loss_ledger.daily ELSE 0
LedgerWeekly(day) ==
    IF loss_ledger.week = WeekStart(day) THEN loss_ledger.weekly ELSE 0

InitMC ==
    /\ current_regime = NoRegime
    /\ regime_stability_count = 0
    /\ active_strategy = NoDecision
    /\ data = NoData
    /\ snap_evals = 0
    /\ seen = <<>>
    /\ consec = 0
    /\ last_call = NoCall

\* telegram.override_mode; MANUAL is treated by check_entries as AUTO is
TelegramModes == {"AUTO", "CONFIRM"}

\* the momentum bot constructed from a configuration with the capital cap
InitMomentum(cap) ==
    /\ today = StartDay
    /\ partial_exit_pct \in PartialExitPcts
    /\ capital = cap
    /\ telegram_mode \in TelegramModes
    /\ positions = <<>>
    /\ position_counter = 0
    /\ daily_loss = 0
    /\ weekly_loss = 0
    /\ current_day = StartDay
    /\ week_start = WeekStart(StartDay)
    /\ active_positions = {}
    /\ pc = "sleep"
    /\ exit_queue = <<>>
    /\ orders = <<>>
    /\ cycle = NoCycle
    /\ close_order = NoOrder
    /\ loss_ledger = NoLosses

InitBot == InitMomentum(DefaultCapital)

\* _load_state without a state file (engine.py:52-58); timestamps are the
\* number of the entry or exit that wrote them, 0 for None
max_trades_per_day == 10

NoLoopRun ==
    [ran |-> FALSE, placed |-> FALSE, asked |-> FALSE, regime |-> NoRegime,
     now |-> 0, broker |-> "none", raised |-> FALSE,
     entry_orders |-> <<>>, close_orders |-> <<>>]
\* engine.py:51-56: without a state file the position is flat and the
\* timestamps are None (0 here)
FreshState ==
    [position |-> "flat", last_entry_ts |-> 0, last_exit_ts |-> 0,
     trades_today_date |-> -1, trades_today_count |-> 0]
\* engine.py:751,754: the defaults of the two limits
DefaultLoopConfig ==
    [cooldown_minutes |-> 0, max_trades_per_day |-> max_trades_per_day]

\* notifications.py:29: the default size of the queue
notif_queue_size == 50
NoMessage == [none |-> TRUE]
\* the NotificationManager (notifications.py:34-49) of a configuration with
\* immediate alerts on or off and a queue of the given size. q: the queue;
\* sent: the message the worker handed last to Telegram; dropped: the
\* message offered last was refused; reported: the day of the last daily
\* summary
Notifier(alerts, size) ==
    [alerts |-> alerts, queue_size |-> size, q |-> <<>>, sent |-> NoMessage,
     dropped |-> FALSE, reported |-> 0]

InitIC ==
    /\ ic_state = FreshState
    /\ ic_last = NoLoopRun
    /\ ic_clock = 0
    /\ ic_cfg = DefaultLoopConfig
    /\ ic_notifier = Notifier(FALSE, notif_queue_size)

NoExitCall == [none |-> TRUE]
NoRiskCall == [none |-> TRUE]
NoCondorCall == [none |-> TRUE]
NoPureCall == [none |-> TRUE]
InitCalls ==
    /\ exit_call = NoExitCall
    /\ risk_call = NoRiskCall
    /\ condor_call = NoCondorCall
    /\ pure_call = NoPureCall

Init == InitMC /\ InitBot /\ InitIC /\ InitCalls

\* the controller and the live loop read no momentum configuration
InitDefault == Init /\ partial_exit_pct = 50 /\ telegram_mode = "AUTO"

\* The controller under every sequence of calls of its public interface.
FetchAny == \E md \in RegimeSnapshots : FetchSnapshot(md)
OverrideAny == \E r \in MarketRegime : force_regime_override(r)

NextMC ==
    \/ FetchAny /\ UNCHANGED <<botvars, icvars, callvars>>
    \/ DetermineActiveStrategy /\ UNCHANGED <<botvars, icvars, callvars>>
    \/ should_bot_3_trade /\ UNCHANGED <<botvars, icvars, callvars>>
    \/ should_bot_2_trade /\ UNCHANGED <<botvars, icvars, callvars>>
    \/ OverrideAny /\ UNCHANGED <<botvars, icvars, callvars>>

SpecMC == InitDefault /\ [][NextMC]_vars

\* Every snapshot is evaluated once, by one can_trade check.
EvalOnce3 == \E md \in RegimeSnapshots : EvalOnce(md, 3)
EvalOnce2 == \E md \in RegimeSnapshots : EvalOnce(md, 2)

NextOnce ==
    \/ EvalOnce3 /\ UNCHANGED <<botvars, icvars, callvars>>
    \/ EvalOnce2 /\ UNCHANGED <<botvars, icvars, callvars>>

SpecOnce == InitDefault /\ [][NextOnce]_vars

-----------------------------------------------------------------------------
(* MomentumBot: the scan cycle (main_bot3.py:144-338) *)

PremiumQuotes == {0, 2500, 9000}

\* get_active_positions (position_manager.py:264-266), in dict order
RECURSIVE SortedSeq(_)
SortedSeq(S) ==
    IF S = {} THEN <<>>
    ELSE LET m == CHOOSE x \in S : \A y \in S : x <= y
         IN  <<m>> \o SortedSeq(S \ {m})
get_active_positions ==
    SortedSeq({i \in DOMAIN positions : positions[i].status # "CLOSED"})

\* _calculate_total_exposure (risk_manager.py:266-276)
RECURSIVE Exposure(_)
Exposure(S) ==
    IF S = {} THEN 0
    ELSE LET i == CHOOSE x \in S : TRUE
         IN  (positions[i].quantity * positions[i].entry_premium)
                 + Exposure(S \ {i})

\* asyncio.sleep(60) between cycles; the date moves on
Tick ==
    /\ pc = "sleep"
    /\ today < MaxDay
    /\ today' = today + 1
    /\ UNCHANGED <<mcvars, cfgvars, pmvars, rmvars, pc, exit_queue, obsvars>>

\* main_bot3.py:147-150: is_market_open() is false (weekend or outside hours)
MarketClosed ==
    /\ pc = "sleep"
    /\ UNCHANGED vars

\* main_bot3.py:154,176-179: get_latest() raises, the cycle is skipped
FetchFails ==
    /\ pc = "sleep"
    /\ Weekday(today) < 5
    /\ UNCHANGED vars

\* main_bot3.py:154-162: the snapshot is fetched and the controller asked;
\* the cycle goes on to the exits only if Bot 3 may trade
GateOpens(answer) == answer.can_trade

CycleStart(md) ==
    /\ pc = "sleep"
    /\ Weekday(today) < 5
    /\ data' = md
    /\ Determine(md)
    /\ last_call' = CanTrade(3, active_strategy')
    /\ UNCHANGED <<snap_evals, seen, consec>>
    /\ cycle' = [NoCycle EXCEPT !.fetched = TRUE, !.open = DOMAIN positions]
    /\ IF GateOpens(last_call')
       THEN /\ pc' = "cycle"
            /\ exit_queue' = get_active_positions
       ELSE UNCHANGED <<pc, exit_queue>>
    /\ UNCHANGED <<today, cfgvars, pmvars, rmvars, orders, close_order, loss_ledger>>

\* variant of record_position_exit: the counters hold the net result
RecordExit_NetsProfit(i, pnl) ==
    /\ active_positions' = active_positions \ {i}
    /\ daily_loss' = Max(0, daily_loss - pnl)
    /\ weekly_loss' = Max(0, weekly_loss - pnl)
    /\ UNCHANGED <<current_day, week_start>>
    /\ loss_ledger' = LedgerAfter(loss_ledger, today, pnl)

\* record_position_exit (risk_manager.py:180-202)
RecordExit(i, pnl) ==
    /\ active_positions' = active_positions \ {i}
    /\ daily_loss' = IF pnl < 0 THEN daily_loss + Abs(pnl) ELSE daily_loss
    /\ weekly_loss' = IF pnl < 0 THEN weekly_loss + Abs(pnl) ELSE weekly_loss
    /\ UNCHANGED <<current_day, week_start>>
    /\ loss_ledger' = LedgerAfter(loss_ledger, today, pnl)

\* a function without the argument i (del d[i])
Without(f, i) == [j \in DOMAIN f \ {i} |-> f[j]]

\* main_bot3.py:278-338: the body of the loop of check_exits for one position,
\* with exit_position (position_manager.py:159-262).
\* quote: the premium get_option_premium returns; close_ok: the result of
\* broker.close_position; after2pm: the wall clock is at or past 14:00
\* variant: the result of close_position is not looked at
CloseSucceeded_Always(close_result) == TRUE

\* main_bot3.py:314: close_result.get('success')
CloseSucceeded(close_result) == close_result

\* main_bot3.py:303-306: the quantity of the close order
CloseQuantity(p, signal) ==
    IF signal.action = "PARTIAL_EXIT"
    THEN (p.remaining_quantity * signal.percentage) \div 100
    ELSE p.remaining_quantity

CheckExit(quote, close_ok, after2pm) ==
    /\ pc = "cycle"
    /\ exit_queue # <<>>
    /\ LET i == Head(exit_queue)
           p == positions[i]
           signal == check_exits(p, data, quote, today,
                                 Weekday(today) = 2 /\ after2pm,
                                 partial_exit_pct, exit_trailing_method)
           q == ApplyFullExit(p, quote)
       IN  /\ close_order' =
                  IF signal.action = "HOLD" THEN NoOrder
                  ELSE [id |-> i, action |-> signal.action,
                        remaining |-> p.remaining_quantity,
                        quantity |-> CloseQuantity(p, signal),
                        price |-> quote, ok |-> close_ok, filled |-> orders[i]]
           /\ IF signal.action = "HOLD" \/ ~CloseSucceeded(close_ok)
              THEN /\ cycle' = [cycle EXCEPT
                                    !.checked = @ \cup {i},
                                    !.closing = IF signal.action = "HOLD" THEN @
                                                ELSE @ \cup {i}]
                   /\ UNCHANGED <<positions, rmvars, orders, loss_ledger>>
              ELSE IF signal.action = "PARTIAL_EXIT"
              THEN /\ positions' = [positions EXCEPT
                                       ![i] = ApplyPartialExit(p, signal.percentage, quote)]
                   /\ cycle' = [cycle EXCEPT !.checked = @ \cup {i},
                                             !.closing = @ \cup {i}]
                   /\ UNCHANGED <<rmvars, orders, loss_ledger>>
              ELSE /\ positions' = Without(positions, i)
                   /\ orders' = Without(orders, i)
                   /\ RecordExit(i, q.realized_pnl)
                   /\ cycle' = [cycle EXCEPT !.checked = @ \cup {i},
                                             !.closing = @ \cup {i},
                                             !.closed = @ \cup {q}]
    /\ exit_queue' = Tail(exit_queue)
    /\ UNCHANGED <<mcvars, today, cfgvars, position_counter, pc>>

\* check_entries (main_bot3.py:183-267) with enter_position
\* (position_manager.py:46-157). bot_ready: the Telegram bot is set up
\* (TelegramBot.bot is not None); order_ok: the result of broker.place_order
EntrySignal(md) == detect_bullish_momentum(md) \/ detect_bearish_momentum(md)
EntryDirection(md) == IF detect_bullish_momentum(md) THEN "CALL" ELSE "PUT"
\* main_bot3.py:203-204: the factors kept are those of the bullish detector,
\* those of the bearish detector are discarded
SignalFactors(md) == BullishFactors(md)
EntryConfidence(md) ==
    ConfidenceScore(md, SignalFactors(md), get_regime_confidence(md))

\* variant: the answer of validate_entry is not looked at
Rejected_Never(verdict) == FALSE

\* position_manager.py:139-142: if not is_valid: return None
Rejected(verdict) == verdict # "ok"

\* variant of request_confirmation: the timeout approves
request_confirmation_AutoApprove(mode, bot_ready) ==
    IF mode # "CONFIRM" THEN mode = "AUTO" ELSE bot_ready

\* request_confirmation (telegram_bot.py:151-183): no answer of the user is
\* ever read; after the wait of 60 seconds the request is rejected
request_confirmation(mode, bot_ready) ==
    IF mode # "CONFIRM" THEN mode = "AUTO"
    ELSE IF ~bot_ready THEN FALSE
    ELSE FALSE

CheckEntries(bot_ready, order_ok) ==
    /\ pc = "cycle"
    /\ exit_queue = <<>>
    /\ pc' = "sleep"
    /\ LET daily == DailyLossAt(today, daily_loss, current_day)
           weekly == WeeklyLossAt(today, weekly_loss, week_start)
           signalled ==
               /\ ~should_close_all_positions(daily, weekly)
               /\ can_take_position(daily, weekly, Cardinality(active_positions))
               /\ EntrySignal(data)
               /\ should_take_trade(EntryConfidence(data))
           asked == signalled /\ telegram_mode = "CONFIRM"
           approved == request_confirmation(telegram_mode, bot_ready)
           attempt == signalled /\ (asked => approved)
           answer == IF ~asked THEN "not_asked"
                     ELSE IF approved THEN "confirmed" ELSE "rejected"
           i == position_counter + 1
           p == NewPosition(i, EntryDirection(data), data, EntryConfidence(data), today)
           verdict == validate_entry(p, daily, weekly, Cardinality(active_positions),
                                     Exposure(active_positions))
       IN  /\ daily_loss' = daily
           /\ weekly_loss' = weekly
           /\ current_day' = today
           /\ week_start' = WeekStart(today)
           /\ IF ~attempt
              THEN /\ cycle' = [cycle EXCEPT !.kill_switch = TRUE,
                                             !.confirmation = answer,
                                             !.closing = {}]
                   /\ UNCHANGED <<pmvars, active_positions, orders>>
              ELSE /\ position_counter < MaxCreated
                   /\ position_counter' = i
                   /\ IF Rejected(verdict)
                      THEN /\ cycle' = [cycle EXCEPT !.kill_switch = TRUE,
                                                     !.confirmation = answer,
                                                     !.verdict = verdict,
                                                     !.closing = {}]
                           /\ UNCHANGED <<positions, active_positions, orders>>
                      ELSE /\ positions' = (i :> p) @@ positions
                           /\ active_positions' = active_positions \cup {i}
                           /\ orders' = (i :> order_ok) @@ orders
                           /\ cycle' = [cycle EXCEPT !.kill_switch = TRUE,
                                                     !.confirmation = answer,
                                                     !.verdict = verdict,
                                                     !.created = i,
                                                     !.closing = {}]
    /\ close_order' = NoOrder
    /\ UNCHANGED <<mcvars, today, cfgvars, exit_queue, loss_ledger>>

-----------------------------------------------------------------------------
(* The momentum bot under every market, quote and broker behaviour *)

CycleStartAny == \E md \in BotSnapshots : CycleStart(md)
CheckExitAny ==
    \E quote \in PremiumQuotes, close_ok \in BOOLEAN, after2pm \in BOOLEAN :
        CheckExit(quote, close_ok, after2pm)
CheckEntriesAny ==
    \E bot_ready \in BOOLEAN, order_ok \in BOOLEAN : CheckEntries(bot_ready, order_ok)

Next ==
    \/ Tick /\ UNCHANGED <<icvars, callvars>>
    \/ MarketClosed
    \/ FetchFails
    \/ CycleStartAny /\ UNCHANGED <<icvars, callvars>>
    \/ CheckExitAny /\ UNCHANGED <<icvars, callvars>>
    \/ CheckEntriesAny /\ UNCHANGED <<icvars, callvars>>

Spec == Init /\ [][Next]_vars

\* The same bot with a capital that buys one lot: the second entry is more
\* than the capital, and a partial exit of one lot rounds to nothing.
LowCapital == 200000
InitLowCapital == InitMC /\ InitMomentum(LowCapital) /\ InitIC /\ InitCalls

SpecLowCapital == InitLowCapital /\ [][Next]_vars

\* The same bot with the stop signal. run (main_bot3.py:144-181) leaves the
\* loop where KeyboardInterrupt is raised: in the sleep between two cycles,
\* between two steps of a cycle, or inside a step. check_exits catches
\* Exception only (main_bot3.py:337-338), so the interrupt raised after
\* broker.close_position has returned, and before exit_position is
\* called, ends the step there. shutdown (main_bot3.py:373-383) sends the
\* status and leaves the positions and the risk state as they are.
StopAsleep ==
    /\ pc = "sleep"
    /\ pc' = "stopped"
    /\ UNCHANGED <<mcvars, today, cfgvars, pmvars, rmvars, exit_queue, obsvars>>

StopBetweenSteps ==
    /\ pc = "cycle"
    /\ pc' = "stopped"
    /\ UNCHANGED <<mcvars, today, cfgvars, pmvars, rmvars, exit_queue, obsvars>>

StopInExit(quote, close_ok, after2pm) ==
    /\ pc = "cycle"
    /\ exit_queue # <<>>
    /\ LET i == Head(exit_queue)
           p == positions[i]
           signal == check_exits(p, data, quote, today,
                                 Weekday(today) = 2 /\ after2pm,
                                 partial_exit_pct, exit_trailing_method)
       IN  /\ signal.action # "HOLD"
           /\ close_order' = [id |-> i, action |-> signal.action,
                              remaining |-> p.remaining_quantity,
                              quantity |-> CloseQuantity(p, signal),
                              price |-> quote, ok |-> close_ok, filled |-> orders[i]]
           /\ cycle' = [cycle EXCEPT !.checked = @ \cup {i}, !.closing = @ \cup {i}]
    /\ pc' = "stopped"
    /\ UNCHANGED <<mcvars, today, cfgvars, pmvars, rmvars, exit_queue, orders, loss_ledger>>

StopInExitAny ==
    \E quote \in PremiumQuotes, close_ok \in BOOLEAN, after2pm \in BOOLEAN :
        StopInExit(quote, close_ok, after2pm)

NextStop ==
    \/ Next
    \/ StopAsleep /\ UNCHANGED <<icvars, callvars>>
    \/ StopBetweenSteps /\ UNCHANGED <<icvars, callvars>>
    \/ StopInExitAny /\ UNCHANGED <<icvars, callvars>>

SpecStop == Init /\ [][NextStop]_vars

-----------------------------------------------------------------------------
(* ExitHandler.check_exits as a function: every call on a position entered *)
(* on the first day, over the days to its expiry, the markets and quotes   *)

ExitDays == {StartDay, StartDay + 1, StartDay + 2, StartDay + 6, StartDay + 8}
ExitQuotes == PremiumQuotes \cup {2100}
ExitSnapshots ==
    { Bullish,
      [Bullish EXCEPT !.iv_percentile = 15],
      [Bullish EXCEPT !.spot = 23400, !.di = <<10, 30>>] }
\* the position as entered, and after its partial exit at a quote of 90.00
ExitPositions ==
    LET p == NewPosition(1, "CALL", Bullish, EntryConfidence(Bullish), StartDay)
    IN  {p, ApplyPartialExit(p, 50, 9000)}

ExitCalls ==
    [position : ExitPositions, md : ExitSnapshots, premium : ExitQuotes,
     day : ExitDays, after2pm : BOOLEAN, pct : PartialExitPcts,
     answered : {FALSE}, signal : {Hold}]

InitExit ==
    /\ InitMC /\ InitBot /\ InitIC
    /\ telegram_mode = "AUTO"
    /\ exit_call \in ExitCalls
    /\ risk_call = NoRiskCall
    /\ condor_call = NoCondorCall
    /\ pure_call = NoPureCall

CallCheckExits ==
    /\ ~exit_call.answered
    /\ exit_call' =
           [exit_call EXCEPT
              !.answered = TRUE,
              !.signal = check_exits(exit_call.position, exit_call.md,
                                     exit_call.premium, exit_call.day,
                                     Weekday(exit_call.day) = 2 /\ exit_call.after2pm,
                                     exit_call.pct, exit_trailing_method)]
    /\ UNCHANGED <<mcvars, botvars, icvars, risk_call, condor_call, pure_call>>

NextExit == CallCheckExits

SpecExit == InitExit /\ [][NextExit]_vars

-----------------------------------------------------------------------------
(* RiskManager.validate_entry as a function of the proposed position and   *)
(* of the state of the Risk Manager                                        *)

ProposedPositions ==
    { [quantity |-> n, entry_premium |-> e,
       stop_loss |-> (e * (100 - exit_stop_loss_pct)) \div 100] :
          n \in {instrument_lot_size, 1500, 7500}, e \in {2500, 30000} }

RiskCalls ==
    [position : ProposedPositions,
     daily : {0, max_daily_loss - 1, max_daily_loss},
     weekly : {0, max_weekly_loss - 1, max_weekly_loss},
     active : 0 .. (max_positions + 1),
     exposure : {0, DefaultCapital},
     answered : {FALSE}, verdict : {"none"}]

InitRisk ==
    /\ InitMC /\ InitIC
    /\ InitBot
    /\ telegram_mode = "AUTO"
    /\ exit_call = NoExitCall
    /\ risk_call \in RiskCalls
    /\ condor_call = NoCondorCall
    /\ pure_call = NoPureCall

CallValidateEntry ==
    /\ ~risk_call.answered
    /\ risk_call' =
           [risk_call EXCEPT
              !.answered = TRUE,
              !.verdict = validate_entry(risk_call.position, risk_call.daily,
                                         risk_call.weekly, risk_call.active,
                                         risk_call.exposure)]
    /\ UNCHANGED <<mcvars, botvars, icvars, exit_call, condor_call, pure_call>>

NextRisk == CallValidateEntry

SpecRisk == InitRisk /\ [][NextRisk]_vars

-----------------------------------------------------------------------------------------------------------------------------------------------------
(* The balanced iron condor (mch_bot/strategy/iron_condor.py:56-78,        *)
(* 162-189). Points are floats in the code; here they are counted in       *)
(* quarters of a point, so that 23300.25 is 93201.                         *)

\* the float 1.0 in quarters of a point
Point == 4

\* iron_condor.py:68-69: (int(x // step)) * step
round_to_down(x, step) == (x \div step) * step

\* variant: always the next multiple of step above x
round_to_up_Next(x, step) == ((x \div step) + 1) * step

\* iron_condor.py:71-72: (int((x + step - 1) // step)) * step
round_to_up(x, step) == ((x + step - Point) \div step) * step

\* select_balanced_strikes_by_distance (iron_condor.py:56-78)
select_balanced_strikes_by_distance(spot, step, target_distance, wing_width) ==
    LET distance == IF target_distance <= 0 THEN step ELSE target_distance
        width == IF wing_width <= 0 THEN step * 2 ELSE wing_width
        short_put == round_to_down(spot - distance, step)
        short_call == round_to_up(spot + distance, step)
    IN  [short_put |-> short_put, long_put |-> short_put - width,
         short_call |-> short_call, long_call |-> short_call + width]

\* IronCondor(legs=[]) (iron_condor.py:188)
EmptyCondor == [legs |-> <<>>]

\* IronCondor.net_credit (iron_condor.py:35-41), prices in paise
RECURSIVE CreditOf(_)
CreditOf(legs) ==
    IF legs = <<>> THEN 0
    ELSE (IF Head(legs).side = "BUY" THEN 0 - Head(legs).price ELSE Head(legs).price)
             + CreditOf(Tail(legs))
net_credit(ic) == CreditOf(ic.legs)

\* the four legs of build_iron_condor_balanced (iron_condor.py:173-186).
\* prices: what price_fn answers for the short put, long put, short call
\* and long call
CondorLegs(spot, lot_size, step, wing_width, target_distance, prices) ==
    LET k == select_balanced_strikes_by_distance(spot, step, target_distance,
                                                 wing_width)
    IN  [legs |-> << [strike |-> k.short_put, option_type |-> "PUT", side |-> "SELL",
                      qty |-> lot_size, price |-> prices.ps],
                     [strike |-> k.short_call, option_type |-> "CALL", side |-> "SELL",
                      qty |-> lot_size, price |-> prices.cs],
                     [strike |-> k.long_put, option_type |-> "PUT", side |-> "BUY",
                      qty |-> lot_size, price |-> prices.pl],
                     [strike |-> k.long_call, option_type |-> "CALL", side |-> "BUY",
                      qty |-> lot_size, price |-> prices.cl] >>]

\* variant of the builder without the minimum-credit filter
build_iron_condor_balanced_NoFilter(spot, lot_size, step, wing_width, min_credit, target_distance, prices) ==
    CondorLegs(spot, lot_size, step, wing_width, target_distance, prices)

\* build_iron_condor_balanced (iron_condor.py:162-189)
build_iron_condor_balanced(spot, lot_size, step, wing_width, min_credit, target_distance, prices) ==
    LET ic == CondorLegs(spot, lot_size, step, wing_width, target_distance, prices)
    IN  IF net_credit(ic) * lot_size < min_credit THEN EmptyCondor ELSE ic

\* the strike of the leg of a condor with the given type and side
StrikeOf(ic, option_type, side) ==
    LET n == CHOOSE j \in DOMAIN ic.legs :
                 ic.legs[j].option_type = option_type /\ ic.legs[j].side = side
    IN  ic.legs[n].strike

\* no leg of the asked kind
NoStrike == -1

\* next((l.strike for l in ic.legs if ...), None) (iron_condor.py:96-99)
LegStrike(legs, option_type, side) ==
    LET hits == {j \in DOMAIN legs :
                    legs[j].option_type = option_type /\ legs[j].side = side}
    IN  IF hits = {} THEN NoStrike
        ELSE legs[CHOOSE j \in hits : \A h \in hits : j <= h].strike

\* the reasons of validate_balanced_ic, in the order the checks are made
ReasonsOf(failed) == SelectSeq(failed, LAMBDA r : r # "")

\* validate_balanced_ic (iron_condor.py:81-125); required_lot_size 0 is None.
\* Points are quarters: 1.0 is Point, and 0.2 * min is compared times 5
validate_balanced_ic(spot, ic, constraints, lot_size) ==
    LET lot == ReasonsOf(<<
            IF constraints.required_lot_size # 0
               /\ lot_size # constraints.required_lot_size THEN "lot_size" ELSE "" >>)
        sp == LegStrike(ic.legs, "PUT", "SELL")
        sc == LegStrike(ic.legs, "CALL", "SELL")
        lp == LegStrike(ic.legs, "PUT", "BUY")
        lc == LegStrike(ic.legs, "CALL", "BUY")
        dist_put == spot - sp
        dist_call == sc - spot
    IN  IF Len(ic.legs) # 4
        THEN [ok |-> FALSE, reasons |-> lot \o <<"leg_count">>]
        ELSE IF NoStrike \in {sp, sc, lp, lc}
        THEN [ok |-> FALSE, reasons |-> lot \o <<"missing_leg">>]
        ELSE LET reasons == lot \o ReasonsOf(<<
                    IF ~(sc > spot /\ spot > sp) THEN "short_strikes" ELSE "",
                    IF constraints.require_equal_wings /\ (sp - lp) # (lc - sc)
                    THEN "wings" ELSE "",
                    IF Abs(dist_put - dist_call) * 5
                           > Max(5 * Point, Min(dist_put, dist_call))
                    THEN "balance" ELSE "",
                    IF ~(constraints.min_otm_distance <= dist_put
                         /\ dist_put <= constraints.max_otm_distance)
                    THEN "put_distance" ELSE "",
                    IF ~(constraints.min_otm_distance <= dist_call
                         /\ dist_call <= constraints.max_otm_distance)
                    THEN "call_distance" ELSE "" >>)
             IN  [ok |-> reasons = <<>>, reasons |-> reasons]

\* run_live (engine.py:293-298, 463-475): the configuration of the engine
ic_lot_size == 75
min_otm_distance == 200
max_otm_distance == 500
EngineConstraints ==
    [min_otm_distance |-> min_otm_distance * Point,
     max_otm_distance |-> max_otm_distance * Point,
     require_equal_wings |-> TRUE, required_lot_size |-> ic_lot_size]

\* run_live (engine.py:463-478, 507-509): the condor goes on to the orders
RunLivePlaces(spot, ic) ==
    /\ validate_balanced_ic(spot, ic, EngineConstraints, ic_lot_size).ok
    /\ ic.legs # <<>>

\* spots 23300.00, 23300.25, 23310.00, 23325.50, 23349.75, 23500.00; steps
\* 50 and 100; distances 250, 250.5, 275, 300; wings 100, 200 and 400
CondorSpots == {93200, 93201, 93240, 93302, 93399, 94000}
CondorSteps == {50 * Point, 100 * Point}
CondorDistances == {250 * Point, (250 * Point) + 2, 275 * Point, 300 * Point}
CondorWings == {100 * Point, 200 * Point, 400 * Point}

\* what price_fn answers for the four legs, in paise: a credit of 77.00, a
\* credit of 3.00 and a debit of 10.00
CondorPrices ==
    { [ps |-> 6000, pl |-> 2000, cs |-> 5500, cl |-> 1800],
      [ps |-> 1000, pl |-> 800, cs |-> 900, cl |-> 800],
      [ps |-> 1000, pl |-> 1500, cs |-> 900, cl |-> 1400] }
\* min_credit_per_ic, in paise: Rs 1 (engine.py:297), Rs 1,500 and Rs 5,775
MinCredits == {100, 150000, 577500}

CondorCalls ==
    [spot : CondorSpots, step : CondorSteps, target_distance : CondorDistances,
     wing_width : CondorWings, prices : CondorPrices, min_credit : MinCredits,
     answered : {FALSE}, ic : {EmptyCondor}, placed : {FALSE}]

InitCondor ==
    /\ InitMC /\ InitIC
    /\ InitMomentum(DefaultCapital)
    /\ partial_exit_pct = 50
    /\ telegram_mode = "AUTO"
    /\ exit_call = NoExitCall
    /\ risk_call = NoRiskCall
    /\ condor_call \in CondorCalls
    /\ pure_call = NoPureCall

\* run_live (engine.py:452-462): the condor built for the call
BuiltFor(c) ==
    build_iron_condor_balanced(c.spot, ic_lot_size, c.step, c.wing_width,
                               c.min_credit, c.target_distance, c.prices)

CallBuildCondor ==
    /\ ~condor_call.answered
    /\ condor_call' =
           [condor_call EXCEPT
              !.answered = TRUE,
              !.ic = BuiltFor(condor_call),
              !.placed = RunLivePlaces(condor_call.spot, BuiltFor(condor_call))]
    /\ UNCHANGED <<mcvars, botvars, icvars, exit_call, risk_call, pure_call>>

NextCondor == CallBuildCondor

SpecCondor == InitCondor /\ [][NextCondor]_vars

-----------------------------------------------------------------------------
(* validate_balanced_ic as a function of any condor a caller can pass *)

Leg(strike, option_type, side) ==
    [strike |-> strike * Point, option_type |-> option_type, side |-> side,
     qty |-> ic_lot_size, price |-> 0]

\* a balanced condor around 23500; one with the short put too near and a
\* wider put wing; one with the short strikes on the wrong sides
GoodLegs ==
    << Leg(23200, "PUT", "SELL"), Leg(23800, "CALL", "SELL"),
       Leg(22800, "PUT", "BUY"), Leg(24200, "CALL", "BUY") >>
SkewedLegs ==
    << Leg(23400, "PUT", "SELL"), Leg(23800, "CALL", "SELL"),
       Leg(22800, "PUT", "BUY"), Leg(24200, "CALL", "BUY") >>
InvertedLegs ==
    << Leg(23600, "PUT", "SELL"), Leg(23400, "CALL", "SELL"),
       Leg(23200, "PUT", "BUY"), Leg(23800, "CALL", "BUY") >>

ValidateCondors ==
    { [legs |-> GoodLegs], [legs |-> SkewedLegs], [legs |-> InvertedLegs],
      EmptyCondor,
      [legs |-> SubSeq(GoodLegs, 1, 3)],
      [legs |-> SubSeq(InvertedLegs, 1, 3)],
      [legs |-> SkewedLegs \o <<Leg(24300, "CALL", "BUY")>>],
      [legs |-> SubSeq(SkewedLegs, 1, 3) \o <<Leg(22700, "PUT", "BUY")>>] }

ValidateCalls ==
    [fn : {"validate_balanced_ic"},
     spot : {23500 * Point, 23510 * Point},
     ic : ValidateCondors,
     constraints : [min_otm_distance : {min_otm_distance * Point},
                    max_otm_distance : {max_otm_distance * Point},
                    require_equal_wings : BOOLEAN,
                    required_lot_size : {0, ic_lot_size}],
     lot_size : {50, ic_lot_size},
     answered : {FALSE},
     result : {[ok |-> FALSE, reasons |-> <<>>]}]

InitValidate ==
    /\ InitMC /\ InitIC
    /\ InitMomentum(DefaultCapital)
    /\ partial_exit_pct = 50
    /\ telegram_mode = "AUTO"
    /\ exit_call = NoExitCall
    /\ risk_call = NoRiskCall
    /\ condor_call = NoCondorCall
    /\ pure_call \in ValidateCalls

CallValidate ==
    /\ pure_call.fn = "validate_balanced_ic"
    /\ ~pure_call.answered
    /\ pure_call' =
           [pure_call EXCEPT
              !.answered = TRUE,
              !.result = validate_balanced_ic(pure_call.spot, pure_call.ic,
                                              pure_call.constraints,
                                              pure_call.lot_size)]
    /\ UNCHANGED <<mcvars, botvars, icvars, exit_call, risk_call, condor_call>>

NextValidate == CallValidate

SpecValidate == InitValidate /\ [][NextValidate]_vars

-----------------------------------------------------------------------------
(* The scan of run_live over the OTM distances (engine.py:409-476): one     *)
(* action per pass of the loop, then the validation of the condor chosen.   *)
(* Credits are in paise, a width in quarters of a point is 25 paise each.   *)

\* no VIX quote (engine.py:338)
NoVix == -1

\* dynamic_width (engine.py:410-418), wing: strategy.wing_width_points
dynamic_width(vix, wing) ==
    IF vix = NoVix THEN wing
    ELSE IF vix < 15 THEN 300 * Point
    ELSE IF vix < 25 THEN 400 * Point
    ELSE 500 * Point

\* engine.py:296-298, 423-424
wing_width_points == 400
target_distance_points == 300
min_credit_per_ic == 100
target_credit_points == 9000
max_loss_limit == 3000000

\* best_ic = None (engine.py:426)
NoBest == [none |-> TRUE]

\* what price_fn answers for the four legs of a candidate: credits of 97.00,
\* 77.00 and 3.00 and a debit of 10.00
ScanPrices ==
    CondorPrices \cup { [ps |-> 7000, pl |-> 2000, cs |-> 6500, cl |-> 1800] }

ScanVixes == {NoVix, 14, 20, 30}

ScanCalls ==
    [fn : {"scan"}, spot : CondorSpots, step : CondorSteps,
     wing : {dynamic_width(v, wing_width_points * Point) : v \in ScanVixes},
     at : {"loop"}, dist : {min_otm_distance * Point},
     best_ic : {NoBest}, best_err : {0},
     scanned : {FALSE}, ic : {EmptyCondor},
     result : {[ok |-> FALSE, reasons |-> <<>>]}]

InitScan ==
    /\ InitMC /\ InitIC
    /\ InitMomentum(DefaultCapital)
    /\ partial_exit_pct = 50
    /\ telegram_mode = "AUTO"
    /\ exit_call = NoExitCall
    /\ risk_call = NoRiskCall
    /\ condor_call = NoCondorCall
    /\ pure_call \in ScanCalls

\* one pass of the loop over dist (engine.py:428-450), or its end. best_err
\* starts at 1e9 points (engine.py:427), above the error of any credit, so
\* the first candidate that is not skipped is always taken
ScanStep(prices) ==
    /\ pure_call.fn = "scan"
    /\ pure_call.at = "loop"
    /\ LET c == pure_call
           cand == build_iron_condor_balanced(c.spot, ic_lot_size, c.step, c.wing,
                                              min_credit_per_ic, c.dist, prices)
           credit_c == net_credit(cand)
           max_loss_c == Max(0, (c.wing * 25) - credit_c) * ic_lot_size
           err == Abs(credit_c - target_credit_points)
           next == [c EXCEPT !.dist = @ + c.step]
       IN  pure_call' =
              IF c.dist > max_otm_distance * Point
              THEN [c EXCEPT !.at = "validate"]
              ELSE IF cand.legs = <<>> THEN next
              ELSE IF max_loss_c > max_loss_limit THEN next
              ELSE IF c.best_ic = NoBest \/ err < c.best_err
              THEN [next EXCEPT !.best_ic = cand, !.best_err = err]
              ELSE next
    /\ UNCHANGED <<mcvars, botvars, icvars, exit_call, risk_call, condor_call>>

\* run_live after the loop (engine.py:452-476): the best candidate, or a
\* condor built at the configured distance, goes to validate_balanced_ic
ScanValidate(prices) ==
    /\ pure_call.fn = "scan"
    /\ pure_call.at = "validate"
    /\ LET c == pure_call
           ic == IF c.best_ic # NoBest THEN c.best_ic
                 ELSE build_iron_condor_balanced(c.spot, ic_lot_size, c.step, c.wing,
                                                 min_credit_per_ic,
                                                 target_distance_points * Point, prices)
       IN  pure_call' =
              [c EXCEPT !.at = "done", !.scanned = (c.best_ic # NoBest), !.ic = ic,
                        !.result = validate_balanced_ic(c.spot, ic, EngineConstraints,
                                                        ic_lot_size)]
    /\ UNCHANGED <<mcvars, botvars, icvars, exit_call, risk_call, condor_call>>

ScanStepAny == \E prices \in ScanPrices : ScanStep(prices)
ScanValidateAny == \E prices \in ScanPrices : ScanValidate(prices)

NextScan == ScanStepAny \/ ScanValidateAny

SpecScan == InitScan /\ [][NextScan]_vars

-----------------------------------------------------------------------------
(* The iron-condor live loop (mch_bot/engine.py:718-787) with run_live     *)
(* (engine.py:273-716). A timestamp is a number of minutes.                *)

Brokers == {"paper", "kite"}
DayMinutes == 24 * 60
\* the last minute of a day's session at which the loop still scans
MaxMinute == 6
\* execution.monitor_seconds is 120: the monitor lasts up to two minutes
MonitorMinutes == {0, 2}
LoopConfigs == [cooldown_minutes : {0, 3}, max_trades_per_day : {2, max_trades_per_day}]

Stamp(day, minute) == (day * DayMinutes) + minute

\* engine.py:745-750: the daily trade counter starts anew on a new date
DailyCap(st, day) ==
    IF st.trades_today_date # day
    THEN [st EXCEPT !.trades_today_date = day, !.trades_today_count = 0]
    ELSE st

\* a variant of the loop that waits for no cooldown
InCooldown_Never(st, now, cfg) == FALSE

\* engine.py:755-766: an exit is on record and less than cooldown_minutes old
InCooldown(st, now, cfg) ==
    /\ st.last_exit_ts # 0
    /\ cfg.cooldown_minutes > 0
    /\ now - st.last_exit_ts < cfg.cooldown_minutes

\* run_live, state written on entry (engine.py:550-553, 599-602)
Entered(st, ts) == [st EXCEPT !.position = "active", !.last_entry_ts = ts]
\* run_live, state written on exit (engine.py:577-579, 655-658)
Exited(st, ts) == [st EXCEPT !.position = "flat", !.last_exit_ts = ts]
\* engine.py:776-780: an entry happened, count a trade
Counted(st, day) ==
    [st EXCEPT !.trades_today_count = @ + 1, !.trades_today_date = day]

\* engine.py:523-537: one order for each leg of the condor
EntryOrders(legs) ==
    [i \in DOMAIN legs |->
        [symbol |-> <<legs[i].strike, legs[i].option_type>>, side |-> legs[i].side,
         qty |-> legs[i].qty]]
\* engine.py:642-650: the offsetting order of each entry order
CloseOrders(entry) ==
    [i \in DOMAIN entry |->
        [entry[i] EXCEPT !.side = IF @ = "SELL" THEN "BUY" ELSE "SELL"]]
\* zerodha_kite.py:76-102: place_order raises at order n + 1, the orders
\* before it are with the broker
Sent(batch, n) == SubSeq(batch, 1, n)

\* a variant of the queue that takes every message
_enqueue_Unbounded(nf, msg) == [nf EXCEPT !.q = Append(@, msg), !.dropped = FALSE]

\* notifications.py:90-94: put_nowait on the bounded queue; a full queue
\* raises and the message is dropped
_enqueue(nf, msg) ==
    IF Len(nf.q) >= nf.queue_size THEN [nf EXCEPT !.dropped = TRUE]
    ELSE [nf EXCEPT !.q = Append(@, msg), !.dropped = FALSE]

\* notifications.py:68-74 for the alerts of run_live ('entry', 'exit'),
\* which _format_immediate turns into a text; ts: the time in the text
send_immediate_alert(nf, alert_type, ts) ==
    IF ~nf.alerts THEN nf
    ELSE _enqueue(nf, [type |-> alert_type, at |-> ts])

\* run_live called at now with the state file st. built: it got its data
\* and a valid condor with enough credit; liquid: the liquidity check let
\* it pass; entry_sent, close_sent: the orders Kite accepted of the four;
\* took: the minutes the monitor lasted
run_live(st, now, built, broker, liquid, entry_sent, took, close_sent) ==
    LET entry == EntryOrders(GoodLegs)
        nothing == [state |-> st, entry_orders |-> <<>>, close_orders |-> <<>>,
                    raised |-> FALSE, minutes |-> 0, alert |-> "none"]
    IN  IF ~built THEN nothing
        ELSE IF broker = "paper"
        THEN [nothing EXCEPT !.state = Exited(Entered(st, now), now),
                             !.entry_orders = entry, !.alert = "entry"]
        ELSE IF ~liquid THEN nothing
        ELSE IF entry_sent < Len(entry)
        THEN [nothing EXCEPT !.entry_orders = Sent(entry, entry_sent),
                             !.raised = TRUE]
        ELSE IF close_sent < Len(entry)
        THEN [nothing EXCEPT !.state = Entered(st, now),
                             !.entry_orders = entry,
                             !.close_orders = Sent(CloseOrders(entry), close_sent),
                             !.raised = TRUE, !.minutes = took]
        ELSE [nothing EXCEPT !.state = Exited(Entered(st, now), now + took),
                             !.entry_orders = entry,
                             !.close_orders = CloseOrders(entry),
                             !.minutes = took, !.alert = "exit"]

\* one iteration of the loop with the market open (engine.py:735-785). md:
\* the market at that time
Iteration(md, built, broker, liquid, entry_sent, took, close_sent) ==
    /\ Weekday(today) < 5
    /\ ic_clock <= MaxMinute
    /\ LET now == Stamp(today, ic_clock)
           st == DailyCap(ic_state, today)
           runs == /\ st.position = "flat"
                   /\ st.trades_today_count < ic_cfg.max_trades_per_day
                   /\ ~InCooldown(st, now, ic_cfg)
           out == run_live(st, now, built, broker, liquid, entry_sent, took,
                           close_sent)
           entered == /\ ~out.raised
                      /\ out.state.last_entry_ts # 0
                      /\ out.state.last_entry_ts # st.last_entry_ts
       IN  /\ ic_state' =
                  IF ~runs THEN st
                  ELSE IF entered THEN Counted(out.state, today)
                  ELSE out.state
           /\ ic_last' =
                  IF ~runs THEN [NoLoopRun EXCEPT !.regime = classify(md), !.now = now]
                  ELSE [ran |-> TRUE, placed |-> out.entry_orders # <<>>,
                        asked |-> FALSE, regime |-> classify(md), now |-> now,
                        broker |-> broker, raised |-> out.raised,
                        entry_orders |-> out.entry_orders,
                        close_orders |-> out.close_orders]
           /\ ic_notifier' =
                  IF runs /\ out.alert # "none"
                  THEN send_immediate_alert(ic_notifier, out.alert, now + out.minutes)
                  ELSE ic_notifier
           /\ ic_clock' = ic_clock + (IF runs THEN out.minutes ELSE 0) + 1
    /\ UNCHANGED <<ic_cfg, mcvars, botvars, callvars>>

\* the markets of the loop: a trending, a ranging and two choppy ones
LoopSnapshots == {md \in RegimeSnapshots : md.vix = 14 /\ md.di[1] >= 20}
\* what can happen to run_live; an argument that the run does not come to
\* read stands at its first value
RunOutcomes ==
    {o \in [built : BOOLEAN, broker : Brokers, liquid : BOOLEAN,
            entry_sent : {1, 4}, took : MonitorMinutes, close_sent : {0, 3, 4}] :
        LET kite == o.built /\ o.broker = "kite"
            sent == kite /\ o.liquid /\ o.entry_sent = 4
        IN  /\ ~kite => o.liquid
            /\ ~(kite /\ o.liquid) => o.entry_sent = 4
            /\ ~sent => o.took = 0 /\ o.close_sent = 4}

IterationAny ==
    \E md \in LoopSnapshots, o \in RunOutcomes :
        Iteration(md, o.built, o.broker, o.liquid, o.entry_sent, o.took,
                  o.close_sent)

\* engine.py:737-742: the market is closed, the loop sleeps until it opens
\* on the next day
LoopSleeps ==
    /\ today < MaxDay
    /\ today' = today + 1
    /\ ic_clock' = 0
    /\ UNCHANGED <<ic_state, ic_last, ic_cfg, ic_notifier, mcvars, cfgvars, pmvars,
                   rmvars, pc, exit_queue, obsvars, callvars>>

InitLoop ==
    /\ InitMC /\ InitBot /\ InitCalls
    /\ partial_exit_pct = 50
    /\ telegram_mode = "AUTO"
    /\ ic_state = FreshState
    /\ ic_last = NoLoopRun
    /\ ic_clock = 0
    /\ ic_cfg \in LoopConfigs
    /\ ic_notifier = Notifier(FALSE, notif_queue_size)

NextIC ==
    \/ LoopSleeps
    \/ IterationAny

SpecIC == InitLoop /\ [][NextIC]_vars

-----------------------------------------------------------------------------
(* The live loop with its notifications: the loop offers its alerts, the    *)
(* scheduler its daily summary, the worker thread sends them                *)
(* (mch_bot/notifications.py)                                              *)

QueueSizes == {1, 2}

\* notifications.py:96-107: the worker takes the oldest message and hands
\* it to Telegram, delivered or not; on an empty queue it waits
_worker ==
    /\ ic_notifier.q # <<>>
    /\ ic_notifier' = [ic_notifier EXCEPT !.q = Tail(@), !.sent = Head(ic_notifier.q)]
    /\ UNCHANGED <<ic_state, ic_last, ic_clock, ic_cfg, mcvars, botvars, callvars>>

\* notifications.py:174-216: the scheduler's job of the day offers its text
_daily_summary ==
    /\ ic_notifier.reported # today
    /\ ic_notifier' = [_enqueue(ic_notifier, [type |-> "daily", at |-> Stamp(today, 0)])
                          EXCEPT !.reported = today]
    /\ UNCHANGED <<ic_state, ic_last, ic_clock, ic_cfg, mcvars, botvars, callvars>>

\* run_live placing a condor with the paper broker or with Kite taking
\* every order
AlertingOutcomes ==
    {o \in RunOutcomes :
        o.built /\ o.liquid /\ o.entry_sent = 4 /\ o.took = 0 /\ o.close_sent = 4}
IterationAlerting ==
    \E o \in AlertingOutcomes :
        Iteration(Bullish, o.built, o.broker, o.liquid, o.entry_sent, o.took,
                  o.close_sent)

InitNotify ==
    /\ InitMC /\ InitBot /\ InitCalls
    /\ partial_exit_pct = 50
    /\ telegram_mode = "AUTO"
    /\ ic_state = FreshState
    /\ ic_last = NoLoopRun
    /\ ic_clock = 0
    /\ ic_cfg = [cooldown_minutes |-> 0, max_trades_per_day |-> 2]
    /\ \E size \in QueueSizes : ic_notifier = Notifier(TRUE, size)

NextNotify ==
    \/ LoopSleeps
    \/ IterationAlerting
    \/ _daily_summary
    \/ _worker

SpecNotify == InitNotify /\ [][NextNotify]_vars

-----------------------------------------------------------------------------
(* Black-Scholes prices and implied volatility (mch_bot/data/bs.py,        *)
(* mch_bot/market/iv.py). Prices, strikes, years, rates and volatilities   *)
(* are fixed-point numbers in millionths; the library functions sqrt, log, *)
(* exp and erf are computed to about five decimals.                        *)

Unit == 1000 * 1000

\* x / n truncated towards zero, n a positive integer
TruncDiv(x, n) == IF x < 0 THEN 0 - ((0 - x) \div n) ELSE x \div n

\* the product of two fixed-point numbers, rounded to the nearest millionth
MulPos(a, b) ==
    LET ah == a \div 1000
        al == a % 1000
        bh == b \div 1000
        bl == b % 1000
    IN  (ah * bh) + (((ah * bl) + (al * bh) + ((al * bl) \div 1000) + 500) \div 1000)
Mul(a, b) ==
    IF (a < 0) = (b < 0) THEN MulPos(Abs(a), Abs(b)) ELSE 0 - MulPos(Abs(a), Abs(b))

\* the quotient of two fixed-point numbers, b > 0, rounded to the nearest
\* millionth; a quotient of 1000 or more is 1000
RECURSIVE Frac(_, _, _)
Frac(rem, b, n) ==
    IF n = 0 THEN 0
    ELSE (((rem * 10) \div b) * (10 ^ (n - 1))) + Frac((rem * 10) % b, b, n - 1)
DivPos(a, b) ==
    IF a \div b >= 1000 THEN 1000 * Unit
    ELSE ((a \div b) * Unit) + ((Frac(a % b, b, 7) + 5) \div 10)
Div(a, b) == IF a < 0 THEN 0 - DivPos(0 - a, b) ELSE DivPos(a, b)

\* math.sqrt by Newton's iteration from 1
RECURSIVE Newton(_, _, _)
Newton(x, y, n) ==
    IF n = 0 \/ y = 0 THEN y
    ELSE LET next == (y + Div(x, y)) \div 2
         IN  IF next = y THEN y ELSE Newton(x, next, n - 1)
Sqrt(x) == Newton(x, Unit, 12)

\* math.log: log x = 2 artanh((x - 1) / (x + 1)), after halving or doubling
\* x into [1/2, 2]
RECURSIVE OddPowers(_, _, _)
OddPowers(zz, power, n) ==
    IF n > 15 THEN 0
    ELSE TruncDiv(power, n) + OddPowers(zz, Mul(power, zz), n + 2)
LnSeries(x) ==
    LET z == Div(x - Unit, x + Unit)
    IN  2 * OddPowers(Mul(z, z), z, 1)
RECURSIVE Ln(_)
Ln(x) ==
    IF x > 2 * Unit THEN LnSeries(2 * Unit) + Ln(x \div 2)
    ELSE IF x < Unit \div 2 THEN Ln(2 * x) - LnSeries(2 * Unit)
    ELSE LnSeries(x)

\* math.exp: the power series on [-1/2, 1/2], and exp(x) = exp(x / 2) ^ 2
RECURSIVE ExpTerms(_, _, _)
ExpTerms(x, term, n) ==
    IF n > 9 \/ term = 0 THEN 0
    ELSE term + ExpTerms(x, TruncDiv(Mul(term, x), n), n + 1)
ExpSeries(x) == ExpTerms(x, Unit, 1)
RECURSIVE Exp(_)
Exp(x) ==
    IF x < 0 - (20 * Unit) THEN 0
    ELSE IF Abs(x) > Unit \div 2
    THEN LET half == Exp(TruncDiv(x, 2)) IN Mul(half, half)
    ELSE ExpSeries(x)

\* _phi (bs.py:6-7): 0.5 (1 + erf(x / sqrt 2)), the normal distribution
\* function, by the polynomial of Abramowitz and Stegun 26.2.17 (error
\* below 1e-7); beyond six deviations it is 0 or 1 to six decimals
PhiPos(x) ==
    IF x >= 6 * Unit THEN Unit
    ELSE LET t == Div(Unit, Unit + Mul(231642, x))
             poly == Mul(t, 319382 + Mul(t, (0 - 356564) + Mul(t, 1781478
                         + Mul(t, (0 - 1821256) + Mul(t, 1330274)))))
             density == Mul(398942, Exp(0 - (Mul(x, x) \div 2)))
         IN  Unit - Mul(density, poly)
_phi(x) == IF x >= 0 THEN PhiPos(x) ELSE Unit - PhiPos(0 - x)

\* d1 and d2 are kept within the six deviations _phi tells apart
Clamp(x) == Max(0 - (6 * Unit), Min(6 * Unit, x))

\* black_scholes (bs.py:10-26)
black_scholes(s, k, t, r, sigma, option_type) ==
    IF t <= 0 \/ sigma <= 0
    THEN IF option_type = "CALL" THEN Max(0, s - k) ELSE Max(0, k - s)
    ELSE LET vol_sqrt_t == Mul(sigma, Sqrt(t))
             num == Ln(Div(s, k)) + Mul(r + (Mul(sigma, sigma) \div 2), t)
             d1 == IF vol_sqrt_t > 0 THEN Clamp(Div(num, vol_sqrt_t))
                   ELSE IF num >= 0 THEN 6 * Unit ELSE 0 - (6 * Unit)
             d2 == Clamp(d1 - vol_sqrt_t)
             discounted == Mul(k, Exp(0 - Mul(r, t)))
         IN  IF option_type = "CALL"
             THEN Mul(s, _phi(d1)) - Mul(discounted, _phi(d2))
             ELSE Mul(discounted, _phi(0 - d2)) - Mul(s, _phi(0 - d1))

\* implied_vol_price (iv.py:7-38) is called with its default lo, hi, tol
\* and max_iter; NoVol is None
iv_lo == 100
iv_hi == 5000000
iv_tol == 100
iv_max_iter == 100
NoVol == -1

\* iv.py:23: min(plo, phi) <= price <= max(plo, phi)
Bracketed(price, plo, phi) == Min(plo, phi) <= price /\ price <= Max(plo, phi)

\* The round trip: a price is computed from a volatility and the implied
\* volatility of the price is asked for. Spot 100; strikes 95, 100, 105;
\* expired, 0.01 and 0.5 years; rates 0 and 6%; volatilities 5% to 300%.
VolSpots == {100 * Unit}
VolStrikes == {95 * Unit, 100 * Unit, 105 * Unit}
VolYears == {0, Unit \div 100, Unit \div 2}
VolRates == {0, 6 * (Unit \div 100)}
Vols == {Unit \div 20, Unit \div 5, Unit, 3 * Unit}
\* at: where implied_vol_price stands ("call": not called yet, "loop": at
\* the head of the for loop, "done": returned); a, b, plo and n are its
\* locals a, b, plo and the number of iterations made
VolCalls ==
    [fn : {"implied_vol_price"}, s : VolSpots, k : VolStrikes, t : VolYears,
     r : VolRates, option_type : {"CALL", "PUT"}, vol : Vols,
     at : {"call"}, answered : {FALSE}, price : {0}, bracketed : {FALSE},
     a : {iv_lo}, b : {iv_hi}, plo : {0}, n : {0}, iv : {NoVol}]

InitVol ==
    /\ InitMC /\ InitIC
    /\ InitMomentum(DefaultCapital)
    /\ partial_exit_pct = 50
    /\ telegram_mode = "AUTO"
    /\ exit_call = NoExitCall
    /\ risk_call = NoRiskCall
    /\ condor_call = NoCondorCall
    /\ pure_call \in VolCalls

\* iv.py:20-25: the price of the round trip is computed and
\* implied_vol_price called with it; the call returns None or enters the loop
CallImpliedVol ==
    /\ pure_call.fn = "implied_vol_price"
    /\ pure_call.at = "call"
    /\ LET c == pure_call
           price == black_scholes(c.s, c.k, c.t, c.r, c.vol, c.option_type)
           plo == black_scholes(c.s, c.k, c.t, c.r, iv_lo, c.option_type)
           phi == black_scholes(c.s, c.k, c.t, c.r, iv_hi, c.option_type)
       IN  pure_call' =
               IF ~Bracketed(price, plo, phi)
               THEN [c EXCEPT !.at = "done", !.answered = TRUE, !.price = price,
                              !.iv = NoVol]
               ELSE [c EXCEPT !.at = "loop", !.price = price, !.bracketed = TRUE,
                              !.plo = plo]
    /\ UNCHANGED <<mcvars, botvars, icvars, exit_call, risk_call, condor_call>>

\* iv.py:26-38: one pass of the for loop, or the return after max_iter
\* passes; (plo - price) * (pm - price) <= 0 is decided by the signs
BisectStep ==
    /\ pure_call.fn = "implied_vol_price"
    /\ pure_call.at = "loop"
    /\ LET c == pure_call
           mid == (c.a + c.b) \div 2
           pm == black_scholes(c.s, c.k, c.t, c.r, mid, c.option_type)
       IN  pure_call' =
               IF c.n = iv_max_iter
               THEN [c EXCEPT !.at = "done", !.answered = TRUE, !.iv = mid]
               ELSE IF Abs(pm - c.price) < iv_tol
               THEN [c EXCEPT !.at = "done", !.answered = TRUE, !.iv = mid]
               ELSE IF (c.plo - c.price <= 0 /\ pm - c.price >= 0)
                       \/ (c.plo - c.price >= 0 /\ pm - c.price <= 0)
               THEN [c EXCEPT !.b = mid, !.n = @ + 1]
               ELSE [c EXCEPT !.a = mid, !.plo = pm, !.n = @ + 1]
    /\ UNCHANGED <<mcvars, botvars, icvars, exit_call, risk_call, condor_call>>

NextVol ==
    \/ CallImpliedVol
    \/ BisectStep

SpecVol == InitVol /\ [][NextVol]_vars

-----------------------------------------------------------------------------
(* classify (regime_classifier.py:47-99) called on snapshots at, below and *)
(* above each of its thresholds.                                           *)

ClassifySnapshots ==
    [adx : {regime_adx_ranging - 5, regime_adx_ranging, regime_adx_trending,
            regime_adx_trending + 5},
     vix : {regime_vix_volatile - 6, regime_vix_volatile, regime_vix_volatile + 5},
     atr_percentile : {50, regime_atr_percentile_high, regime_atr_percentile_high + 10},
     di : {<<30, 10>>, <<25, 15>>, <<13, 20>>, <<20, 15>>, <<20, 18>>}]
ClassifyCalls ==
    [fn : {"classify"}, md : ClassifySnapshots, answered : {FALSE},
     regime : {NoRegime}]

InitClassify ==
    /\ InitMC /\ InitIC
    /\ InitMomentum(DefaultCapital)
    /\ partial_exit_pct = 50
    /\ telegram_mode = "AUTO"
    /\ exit_call = NoExitCall
    /\ risk_call = NoRiskCall
    /\ condor_call = NoCondorCall
    /\ pure_call \in ClassifyCalls

CallClassify ==
    /\ pure_call.fn = "classify"
    /\ ~pure_call.answered
    /\ pure_call' = [pure_call EXCEPT !.answered = TRUE,
                                      !.regime = classify(pure_call.md)]
    /\ UNCHANGED <<mcvars, botvars, icvars, exit_call, risk_call, condor_call>>

NextClassify == CallClassify

SpecClassify == InitClassify /\ [][NextClassify]_vars

-----------------------------------------------------------------------------
(* get_regime_confidence (regime_classifier.py:101-145) called on the       *)
(* snapshots of classify and on calm and stormy volatility indices.         *)

ConfidenceSnapshots ==
    [adx : {0, regime_adx_ranging - 5, regime_adx_ranging, regime_adx_trending,
            regime_adx_trending + 5, 60},
     vix : {10, regime_vix_volatile - 6, regime_vix_volatile,
            regime_vix_volatile + 5, 40},
     atr_percentile : {50, regime_atr_percentile_high,
                       regime_atr_percentile_high + 10, 100},
     di : {<<30, 10>>, <<25, 15>>, <<13, 20>>, <<20, 15>>, <<20, 18>>, <<45, 5>>}]
ConfidenceCalls ==
    [fn : {"get_regime_confidence"}, md : ConfidenceSnapshots, answered : {FALSE},
     regime : {NoRegime}, sub : {<<>>}, confidence : {0}]

InitConfidence ==
    /\ InitMC /\ InitIC
    /\ InitMomentum(DefaultCapital)
    /\ partial_exit_pct = 50
    /\ telegram_mode = "AUTO"
    /\ exit_call = NoExitCall
    /\ risk_call = NoRiskCall
    /\ condor_call = NoCondorCall
    /\ pure_call \in ConfidenceCalls

CallRegimeConfidence ==
    /\ pure_call.fn = "get_regime_confidence"
    /\ ~pure_call.answered
    /\ pure_call' = [pure_call EXCEPT !.answered = TRUE,
                                      !.regime = classify(pure_call.md),
                                      !.sub = RegimeSubScores(pure_call.md),
                                      !.confidence = get_regime_confidence(pure_call.md)]
    /\ UNCHANGED <<mcvars, botvars, icvars, exit_call, risk_call, condor_call>>

NextConfidence == CallRegimeConfidence

SpecConfidence == InitConfidence /\ [][NextConfidence]_vars

-----------------------------------------------------------------------------
(* The signal of check_entries (main_bot3.py:203-220) as a function of the  *)
(* snapshot: detection, direction, factors scored and confidence            *)

SignalCalls ==
    [fn : {"signal"}, md : Snapshots, answered : {FALSE}, detected : {FALSE},
     direction : {"none"}, factors : {BullishFactors(Bullish)}, confidence : {0}]

InitSignal ==
    /\ InitMC /\ InitIC
    /\ InitMomentum(DefaultCapital)
    /\ partial_exit_pct = 50
    /\ telegram_mode = "AUTO"
    /\ exit_call = NoExitCall
    /\ risk_call = NoRiskCall
    /\ condor_call = NoCondorCall
    /\ pure_call \in SignalCalls

CallSignal ==
    /\ pure_call.fn = "signal"
    /\ ~pure_call.answered
    /\ pure_call' =
           IF ~EntrySignal(pure_call.md) THEN [pure_call EXCEPT !.answered = TRUE]
           ELSE [pure_call EXCEPT !.answered = TRUE, !.detected = TRUE,
                                  !.direction = EntryDirection(pure_call.md),
                                  !.factors = SignalFactors(pure_call.md),
                                  !.confidence = EntryConfidence(pure_call.md)]
    /\ UNCHANGED <<mcvars, botvars, icvars, exit_call, risk_call, condor_call>>

NextSignal == CallSignal

SpecSignal == InitSignal /\ [][NextSignal]_vars

-----------------------------------------------------------------------------
(* Claims about the Master Controller *)

\* C1: no decision the controller returns or stores enables both the
\* iron-condor strategy (bot 2) and the momentum strategy (bot 3).
Thm_C1_MutualExclusion ==
    active_strategy # NoDecision =>
        ~(active_strategy.bot_2_iron_condor /\ active_strategy.bot_3_momentum)

\* a decision enabling bot 3 was returned to a should_bot_2_trade caller
Wit_C1_Bot3DecisionStored ==
    /\ active_strategy # NoDecision
    /\ active_strategy.bot_3_momentum
    /\ last_call.bot = 2
    /\ snap_evals = 2

\* the regime of the last snapshot differs from the one before it, or it is
\* the first snapshot the controller ever saw
RegimeJustChanged ==
    /\ Len(seen) >= 1
    /\ (Len(seen) = 1 \/ seen[Len(seen)] # seen[Len(seen) - 1])

\* C3: with every snapshot evaluated once, a can_trade check answers false on
\* the first snapshot after a regime change (with the "waiting for stability"
\* reason when the strategy is enabled); so for regimes A, B, A it answers
\* false on the B snapshot and on the returning A snapshot.
Thm_C3_DebounceAfterChange ==
    RegimeJustChanged =>
        /\ ~last_call.can_trade
        /\ (last_call.enabled => last_call.reason = "waiting")

\* the flicker TRENDING, RANGING, TRENDING, asked for bot 3 on the return
Wit_C3_Flicker ==
    /\ seen = <<"TRENDING", "RANGING", "TRENDING">>
    /\ last_call.bot = 3
    /\ last_call.enabled
    /\ last_call.reason = "waiting"

\* snapshots in the current run of the controller's current regime
ConsecInCurrent ==
    IF Len(seen) > 0 /\ seen[Len(seen)] = current_regime THEN consec ELSE 0

\* C4: stability_count is the number of consecutive most recent snapshots
\* classified into the current regime, and no can_trade check answers true
\* before two consecutive snapshots were classified identically.
Claim_C4_StabilityCountsSnapshots ==
    /\ (current_regime # NoRegime => regime_stability_count = ConsecInCurrent)
    /\ (last_call.can_trade => consec >= RequiredStability)

-----------------------------------------------------------------------------
(* Claims about the Exit Handler *)

\* the conditions of check_exits, each on its own, for the call exit_call
TimeExitDue ==
    days_to_expiry(exit_call.position.expiry_date, exit_call.day) <= exit_time_exit_dte
WednesdayExitDue ==
    /\ exit_wednesday_exit
    /\ Weekday(exit_call.day) = 2 /\ exit_call.after2pm
    /\ exit_call.day - exit_call.position.entry_time <= 2
IvCrushDue ==
    exit_call.position.entry_iv - exit_call.md.iv_percentile > exit_iv_crush_threshold
LossTimes100 ==
    IF exit_call.premium < exit_call.position.entry_premium
    THEN (exit_call.position.entry_premium - exit_call.premium) * 100 ELSE 0
StopLossDue == LossTimes100 >= exit_stop_loss_pct * exit_call.position.entry_premium
ReversalDue ==
    /\ LossTimes100 > 15 * exit_call.position.entry_premium
    /\ momentum_reversed(exit_call.position, exit_call.md)
ProfitBeyondTarget ==
    (exit_call.premium - exit_call.position.entry_premium) * 100
        >= exit_profit_target_pct * exit_call.position.entry_premium

\* C6: check_exits answers with the first condition that holds in the order
\* time exit, Wednesday exit, IV crush, stop loss, momentum reversal, profit
\* taking, else HOLD; a position at or below time_exit_dte that is in profit
\* beyond the target gets EXIT_ALL for the time exit, never PARTIAL_EXIT.
Thm_C6_ExitPriority ==
    (exit_call # NoExitCall /\ exit_call.answered) =>
        LET sig == exit_call.signal
        IN  /\ TimeExitDue => sig = ExitAll("time_exit")
            /\ (~TimeExitDue /\ WednesdayExitDue) => sig = ExitAll("wednesday")
            /\ (~TimeExitDue /\ ~WednesdayExitDue /\ IvCrushDue)
                   => sig = ExitAll("iv_crush")
            /\ (~TimeExitDue /\ ~WednesdayExitDue /\ ~IvCrushDue /\ StopLossDue)
                   => sig = ExitAll("stop_loss")
            /\ (~TimeExitDue /\ ~WednesdayExitDue /\ ~IvCrushDue /\ ~StopLossDue
                  /\ ReversalDue) => sig = ExitAll("momentum_reversal")
            /\ (~TimeExitDue /\ ~WednesdayExitDue /\ ~IvCrushDue /\ ~StopLossDue
                  /\ ~ReversalDue)
                   => /\ sig.reason \in {"profit_target", "trailing_stop", "green"}
                      /\ (sig.action = "PARTIAL_EXIT") =
                             (ProfitBeyondTarget /\ ~exit_call.position.partial_exit_done)
                      /\ ~ProfitBeyondTarget => sig = Hold
            /\ (TimeExitDue /\ ProfitBeyondTarget) => sig.action # "PARTIAL_EXIT"

\* a position three days from expiry, in profit beyond the target and with
\* no partial exit yet, was answered with the time exit
Wit_C6_TimeExitBeatsProfit ==
    /\ exit_call # NoExitCall
    /\ exit_call.answered
    /\ TimeExitDue
    /\ ProfitBeyondTarget
    /\ ~exit_call.position.partial_exit_done
    /\ exit_call.signal = ExitAll("time_exit")

-----------------------------------------------------------------------------
(* Claims about the gate of the two strategies *)

\* C2: a strategy enters a trade only after the controller's can_trade check
\* for it returned true on the cycle's snapshot: the momentum loop creates a
\* position only after should_bot_3_trade returned true, the iron-condor
\* loop places orders only after should_bot_2_trade returned true.
Claim_C2_EntriesGated ==
    /\ cycle.created # 0 => (last_call.bot = 3 /\ last_call.can_trade)
    /\ ic_last.placed =>
           (ic_last.asked /\ last_call.bot = 2 /\ last_call.can_trade)

-----------------------------------------------------------------------------
(* Claims about the scan cycle and the positions *)

\* the position dicts an observer can hold: those the position manager
\* keeps and those closed in the cycle
KnownPositions == {positions[i] : i \in DOMAIN positions} \cup cycle.closed

\* C5: in every cycle with the market open and the snapshot fetched,
\* check_exits is evaluated for every open position before the entry check,
\* also when the controller reports the momentum strategy disabled or not
\* yet stable.
Claim_C5_ExitsEveryCycle ==
    /\ (pc = "sleep" /\ cycle.fetched) => cycle.checked = cycle.open
    /\ cycle.created # 0 => cycle.checked = cycle.open

\* C7: after every exit_position call partial_exit_quantity +
\* remaining_quantity = quantity, also after the final EXIT_ALL, which
\* leaves remaining_quantity = 0 and status CLOSED.
Claim_C7_QuantityConserved ==
    /\ \A p \in KnownPositions :
           p.partial_exit_quantity + p.remaining_quantity = p.quantity
    /\ \A p \in cycle.closed : p.remaining_quantity = 0 /\ p.status = "CLOSED"

\* C8: the status moves forward along PENDING, ACTIVE, PARTIAL_EXIT, CLOSED:
\* a position is ACTIVE once its entry order has been filled, PARTIAL_EXIT
\* after a partial exit has been applied and CLOSED after the full exit.
Claim_C8_StatusFollowsLifecycle ==
    /\ \A i \in DOMAIN positions :
           /\ (orders[i] /\ ~positions[i].partial_exit_done)
                  => positions[i].status = "ACTIVE"
           /\ positions[i].partial_exit_done
                  => positions[i].status = "PARTIAL_EXIT"
    /\ \A p \in cycle.closed : p.status = "CLOSED"

\* the part of C8 the code keeps: no step takes a status back
StatusNeverGoesBack ==
    [][\A i \in DOMAIN positions \cap DOMAIN positions' :
           StatusRank(positions'[i].status) >= StatusRank(positions[i].status)]_vars

\* C9: in every reachable position state remaining_quantity = 0 exactly
\* when status = CLOSED; no partial exit, whatever the configured
\* percentage, brings remaining_quantity to 0 while the position is not
\* CLOSED.
Claim_C9_ZeroIffClosed ==
    \A p \in KnownPositions : (p.remaining_quantity = 0) = (p.status = "CLOSED")

\* C10: after a position is created no step of the position manager, exit
\* handler, risk manager or orchestrator changes its expiry_date or
\* expiry_str, up to and including the step that closes it.
Thm_C10_ExpiryFrozen ==
    [][\A i \in DOMAIN positions :
           /\ i \in DOMAIN positions' =>
                  /\ positions'[i].expiry_date = positions[i].expiry_date
                  /\ positions'[i].expiry_str = positions[i].expiry_str
           /\ \A p \in cycle'.closed \ cycle.closed :
                  p.position_id = i =>
                      /\ p.expiry_date = positions[i].expiry_date
                      /\ p.expiry_str = positions[i].expiry_str]_vars

\* a position went through a partial exit and then the full exit
Wit_C10_PartialThenClosed ==
    \E p \in cycle.closed : p.partial_exit_done /\ p.status = "CLOSED"

-----------------------------------------------------------------------------
(* Claims about the Risk Manager *)

\* the counters were just read by should_close_all_positions in check_entries
CountersRead == pc = "sleep" /\ cycle.kill_switch /\ current_day = today

\* C11: whenever the loss counters are read, daily_loss is the sum of the
\* losses of the exits recorded on the current day and weekly_loss the sum
\* of those recorded in the current week, also for an exit recorded as the
\* first operation after a day boundary.
Claim_C11_CountersAreTodaysLosses ==
    CountersRead =>
        /\ daily_loss = LedgerDaily(today)
        /\ weekly_loss = LedgerWeekly(today)

\* the exits record_position_exit was called for in the step
JustRecorded == cycle'.closed \ cycle.closed

\* C12: over the calls of record_position_exit, daily_loss decreases only
\* in a step that moves the counter to another day and weekly_loss only in
\* one that moves it to another week, and a profitable exit leaves both
\* counters as they are.
Thm_C12_CountersMonotone ==
    [][ /\ daily_loss' < daily_loss => current_day' # current_day
        /\ weekly_loss' < weekly_loss => week_start' # week_start
        /\ \A q \in JustRecorded :
               q.realized_pnl >= 0 =>
                   daily_loss' = daily_loss /\ weekly_loss' = weekly_loss ]_vars

\* a profitable exit was recorded while the counters held a loss
Wit_C12_ProfitAfterLoss ==
    /\ daily_loss > 0
    /\ weekly_loss > 0
    /\ \E q \in cycle.closed : q.realized_pnl > 0

\* C13: in every scan cycle with the market open the orchestrator evaluates
\* should_close_all_positions, whether or not the Master Controller lets
\* the momentum bot trade.
Claim_C13_KillSwitchEveryCycle ==
    (pc = "sleep" /\ cycle.fetched) => cycle.kill_switch

\* C14: with no loss limit breached, validate_entry rejects with the reason
\* naming the position count whenever the active positions are at or above
\* max_positions, whatever the proposed position and the exposure.
Thm_C14_MaxPositionsRejects ==
    ( /\ risk_call # NoRiskCall
      /\ risk_call.answered
      /\ risk_call.daily < max_daily_loss
      /\ risk_call.weekly < max_weekly_loss
      /\ risk_call.active >= max_positions )
        => risk_call.verdict = "max_positions"

\* rejected for the count, with a position that also fails the later checks
Wit_C14_CountBeforeRisk ==
    /\ risk_call # NoRiskCall
    /\ risk_call.answered
    /\ risk_call.active >= max_positions
    /\ PositionRisk(risk_call.position) > max_loss_per_trade
    /\ risk_call.verdict = "max_positions"

-----------------------------------------------------------------------------
(* Claims about the orders of the momentum bot *)

\* the step made a close_position call that the broker did not fill
CloseFailedInStep == close_order' # NoOrder /\ ~close_order'.ok

\* C15: a step whose close_position call fails leaves the position (status,
\* remaining quantity, partial-exit flag, realized P&L) and the sets it is
\* a member of as they were, and a position is closed only in a step whose
\* close_position call succeeded.
Thm_C15_FailedCloseChangesNothing ==
    [][ /\ CloseFailedInStep =>
              /\ close_order'.id \in DOMAIN positions'
              /\ positions'[close_order'.id] = positions[close_order'.id]
              /\ DOMAIN positions' = DOMAIN positions
              /\ active_positions' = active_positions
              /\ cycle'.closed = cycle.closed
        /\ \A q \in JustRecorded :
              /\ close_order' # NoOrder
              /\ close_order'.ok
              /\ close_order'.id = q.position_id ]_vars

\* a full exit was signalled, the close order failed, the position is held
Wit_C15_FailedFullExit ==
    /\ close_order # NoOrder
    /\ close_order.action = "EXIT_ALL"
    /\ ~close_order.ok
    /\ close_order.id \in DOMAIN positions
    /\ positions[close_order.id].status # "CLOSED"

\* the positions whose entry order the broker did not fill
Unfilled == {i \in DOMAIN orders : ~orders[i]}

\* C16: a position whose place_order failed is never treated as filled: it
\* is not among the active positions of the Risk Manager, it is not
\* returned by get_active_positions, and no close order is sent for it.
Claim_C16_UnfilledNeverHeld ==
    /\ \A i \in Unfilled :
          /\ i \notin active_positions
          /\ \A k \in DOMAIN get_active_positions : get_active_positions[k] # i
    /\ close_order # NoOrder => close_order.filled

\* C17: when get_option_premium has no quote and reports 0.0, no exit
\* action is taken for the position: no close order is sent and no
\* position is closed at that premium.
Claim_C17_NoExitWithoutQuote ==
    /\ close_order # NoOrder => close_order.price # 0
    /\ \A q \in cycle.closed : q.exit_premium # 0

\* the step is a check_entries in which validate_entry rejected the position
RejectedInStep ==
    /\ pc = "cycle"
    /\ pc' = "sleep"
    /\ cycle'.verdict \notin {"none", "ok"}

\* C18: when the Risk Manager rejects the proposed position, enter_position
\* returns None: the positions held, the active positions and the loss
\* counters (as should_close_all_positions read them at the start of
\* check_entries) stay as they are, and no order goes to the broker.
Thm_C18_RejectionChangesNothing ==
    [][ RejectedInStep =>
          /\ positions' = positions
          /\ active_positions' = active_positions
          /\ daily_loss' = DailyLossAt(today, daily_loss, current_day)
          /\ weekly_loss' = WeeklyLossAt(today, weekly_loss, week_start)
          /\ orders' = orders
          /\ cycle'.created = 0 ]_vars

\* an entry was rejected while a position is held
Wit_C18_RejectedForCapital ==
    /\ pc = "sleep"
    /\ cycle.verdict = "capital"
    /\ cycle.created = 0
    /\ active_positions # {}

\* C19: when the quantity of a partial exit, the share of the remaining
\* quantity rounded down to whole lots, is zero, the exit is not executed:
\* no close order is sent to the broker.
Claim_C19_NoOrderForZeroLots ==
    (close_order # NoOrder /\ close_order.action = "PARTIAL_EXIT") =>
        PartialExitQuantity(close_order.remaining, partial_exit_pct) # 0

-----------------------------------------------------------------------------
(* Claims about the iron condor *)

\* the call returned a condor with legs, for a distance and a wing width of
\* at least one step
BuiltCondor ==
    /\ condor_call # NoCondorCall
    /\ condor_call.answered
    /\ condor_call.target_distance >= condor_call.step
    /\ condor_call.wing_width >= condor_call.step
    /\ condor_call.ic # EmptyCondor

\* C20: for a target distance and a wing width of at least one step, a
\* non-empty condor of build_iron_condor_balanced has its short call and
\* its short put at the same distance from the spot to within one step,
\* and wings of exactly the same width.
Claim_C20_BalancedWithinStep ==
    BuiltCondor =>
        LET ic == condor_call.ic
            sp == StrikeOf(ic, "PUT", "SELL")
            sc == StrikeOf(ic, "CALL", "SELL")
            lp == StrikeOf(ic, "PUT", "BUY")
            lc == StrikeOf(ic, "CALL", "BUY")
        IN  /\ Abs((sc - condor_call.spot) - (condor_call.spot - sp))
                   <= condor_call.step
            /\ sp - lp = lc - sc

\* C21: a condor the builder returns is empty or has exactly four legs and
\* a net credit times the lot size of at least min_credit_per_ic, and the
\* live engine goes on to no order with an empty condor.
Thm_C21_EmptyOrEnoughCredit ==
    (condor_call # NoCondorCall /\ condor_call.answered) =>
        /\ \/ condor_call.ic = EmptyCondor
           \/ /\ Len(condor_call.ic.legs) = 4
              /\ net_credit(condor_call.ic) * ic_lot_size >= condor_call.min_credit
        /\ condor_call.ic = EmptyCondor => ~condor_call.placed

\* the prices give a positive credit below the minimum: the answer is empty
Wit_C21_ThinCreditFiltered ==
    /\ condor_call # NoCondorCall
    /\ condor_call.answered
    /\ condor_call.prices.ps + condor_call.prices.cs
           > condor_call.prices.pl + condor_call.prices.cl
    /\ condor_call.ic = EmptyCondor
    /\ ~condor_call.placed

\* the call of the scenario: spot 23500, step 50, distance 300, wing 400
ScenarioCall ==
    /\ condor_call # NoCondorCall
    /\ condor_call.answered
    /\ condor_call.spot = 23500 * Point
    /\ condor_call.step = 50 * Point
    /\ condor_call.target_distance = 300 * Point
    /\ condor_call.wing_width = 400 * Point
    /\ condor_call.ic # EmptyCondor

\* C22: for spot 23500, step 50, target distance 300, wing 400 and lot 75
\* the builder selects short put 23200, short call 23800, long put 22800
\* and long call 24200, and validate_balanced_ic with min_otm 200 and
\* max_otm 500 answers ok with no reasons for that condor.
Thm_C22_ScenarioStrikes ==
    ScenarioCall =>
        LET ic == condor_call.ic
        IN  /\ LegStrike(ic.legs, "PUT", "SELL") = 23200 * Point
            /\ LegStrike(ic.legs, "CALL", "SELL") = 23800 * Point
            /\ LegStrike(ic.legs, "PUT", "BUY") = 22800 * Point
            /\ LegStrike(ic.legs, "CALL", "BUY") = 24200 * Point
            /\ Len(ic.legs) = 4
            /\ \A j \in DOMAIN ic.legs : ic.legs[j].qty = 75
            /\ validate_balanced_ic(condor_call.spot, ic, EngineConstraints, 75)
                   = [ok |-> TRUE, reasons |-> <<>>]

\* the scenario was built with enough credit and went on to the orders
Wit_C22_ScenarioBuilt == ScenarioCall /\ condor_call.placed

\* the checks of validate_balanced_ic, each on its own, for the call
\* pure_call; a check on strikes fails if the legs it reads are there
ValidateAnswered ==
    /\ pure_call # NoPureCall
    /\ pure_call.fn = "validate_balanced_ic"
    /\ pure_call.answered
ShortPut == LegStrike(pure_call.ic.legs, "PUT", "SELL")
ShortCall == LegStrike(pure_call.ic.legs, "CALL", "SELL")
LongPut == LegStrike(pure_call.ic.legs, "PUT", "BUY")
LongCall == LegStrike(pure_call.ic.legs, "CALL", "BUY")
HasShorts == ShortPut # NoStrike /\ ShortCall # NoStrike
LegCountFails == Len(pure_call.ic.legs) # 4
LotSizeFails ==
    /\ pure_call.constraints.required_lot_size # 0
    /\ pure_call.lot_size # pure_call.constraints.required_lot_size
ShortStrikesFail ==
    HasShorts /\ ~(ShortCall > pure_call.spot /\ pure_call.spot > ShortPut)
WingsFail ==
    /\ HasShorts /\ LongPut # NoStrike /\ LongCall # NoStrike
    /\ pure_call.constraints.require_equal_wings
    /\ (ShortPut - LongPut) # (LongCall - ShortCall)
BalanceFails ==
    /\ HasShorts
    /\ Abs((pure_call.spot - ShortPut) - (ShortCall - pure_call.spot)) * 5
           > Max(5 * Point, Min(pure_call.spot - ShortPut, ShortCall - pure_call.spot))
PutDistanceFails ==
    /\ ShortPut # NoStrike
    /\ ~(pure_call.constraints.min_otm_distance <= pure_call.spot - ShortPut
         /\ pure_call.spot - ShortPut <= pure_call.constraints.max_otm_distance)
CallDistanceFails ==
    /\ ShortCall # NoStrike
    /\ ~(pure_call.constraints.min_otm_distance <= ShortCall - pure_call.spot
         /\ ShortCall - pure_call.spot <= pure_call.constraints.max_otm_distance)
Reported(reason) ==
    Cardinality({j \in DOMAIN pure_call.result.reasons :
                    pure_call.result.reasons[j] = reason})

\* C23: validate_balanced_ic never short-circuits: for every input the
\* reasons hold one entry for each failing check (leg count, lot size,
\* short call above and short put below the spot, equal wings, balance,
\* put and call distance bounds), and ok is true exactly when there is none.
Claim_C23_AllReasonsReported ==
    ValidateAnswered =>
        /\ Reported("leg_count") = (IF LegCountFails THEN 1 ELSE 0)
        /\ Reported("lot_size") = (IF LotSizeFails THEN 1 ELSE 0)
        /\ Reported("short_strikes") = (IF ShortStrikesFail THEN 1 ELSE 0)
        /\ Reported("wings") = (IF WingsFail THEN 1 ELSE 0)
        /\ Reported("balance") = (IF BalanceFails THEN 1 ELSE 0)
        /\ Reported("put_distance") = (IF PutDistanceFails THEN 1 ELSE 0)
        /\ Reported("call_distance") = (IF CallDistanceFails THEN 1 ELSE 0)
        /\ pure_call.result.ok <=> (pure_call.result.reasons = <<>>)

-----------------------------------------------------------------------------
(* Claims about the entries of the momentum bot *)

\* C24: the expiry enter_position chooses is a Thursday, and its days to
\* expiry on the day of the entry lie within entry_dte_min..entry_dte_max.
Claim_C24_ExpiryInDteRange ==
    \A i \in DOMAIN positions :
        /\ Weekday(positions[i].expiry_date) = 3
        /\ positions[i].expiry_date - positions[i].entry_time >= entry_dte_min
        /\ positions[i].expiry_date - positions[i].entry_time <= entry_dte_max

-----------------------------------------------------------------------------
(* Claims about the stop of the momentum bot *)

\* C26: the loop ends after a stop signal, and a stop that arrives while an
\* exit step is in flight is honoured after the step: no run ends with a
\* close order of a whole position executed by the broker while the
\* position is still held open by the position manager and the risk
\* manager.
Claim_C26_StopAfterStepCompletes ==
    (pc = "stopped" /\ close_order # NoOrder) =>
        (close_order.ok /\ close_order.action = "EXIT_ALL" =>
            /\ close_order.id \notin DOMAIN positions
            /\ close_order.id \notin active_positions)

-----------------------------------------------------------------------------
(* Claims about the decision table and the classifier *)

\* C27: the decision of the controller is a function of the classified
\* regime only: TRENDING enables the momentum bot and disables the iron
\* condor, RANGING and VOLATILE enable the iron condor and disable the
\* momentum bot, CHOPPY and UNKNOWN disable both, whatever the snapshot and
\* the stability count are.
Thm_C27_DecisionByRegime ==
    active_strategy # NoDecision =>
        LET regime == active_strategy.regime
            bot_2 == active_strategy.bot_2_iron_condor
            bot_3 == active_strategy.bot_3_momentum
        IN  /\ regime \in MarketRegime
            /\ regime = "TRENDING" => (bot_3 /\ ~bot_2)
            /\ regime \in {"RANGING", "VOLATILE"} => (bot_2 /\ ~bot_3)
            /\ regime \in {"CHOPPY", "UNKNOWN"} => (~bot_2 /\ ~bot_3)

\* a choppy market was decided on for the third time in a row
Wit_C27_ChoppyStaysInCash ==
    /\ active_strategy # NoDecision
    /\ active_strategy.regime = "CHOPPY"
    /\ active_strategy.stability = MaxStability
    /\ ~active_strategy.bot_2_iron_condor
    /\ ~active_strategy.bot_3_momentum

-----------------------------------------------------------------------------
(* Claims about the implied volatility *)

VolAnswered ==
    /\ pure_call # NoPureCall
    /\ pure_call.fn = "implied_vol_price"
    /\ pure_call.answered

\* C28: for every spot, strike, time, rate and option type and every
\* volatility in [0.05, 3.0], implied_vol_price of the Black-Scholes price
\* at that volatility returns a volatility within 1e-3 of it, and it
\* returns None only when the price is not bracketed by the prices at lo
\* and hi. Stated for the options that have time left.
Claim_C28_RoundTrip ==
    (VolAnswered /\ pure_call.t > 0) =>
        /\ pure_call.iv = NoVol => ~pure_call.bracketed
        /\ pure_call.iv # NoVol
        /\ Abs(pure_call.iv - pure_call.vol) <= Unit \div 1000

-----------------------------------------------------------------------------
(* Claims about the P&L of a position *)

\* the P&L of exiting n units of p at the price of the close order
LegPnl(p, price, n) == (price - p.entry_premium) * n

\* C29: a position starts with nothing exited and no P&L; every exit that
\* is applied adds (exit premium - entry_premium) x exited quantity to
\* realized_pnl and the exited quantity to what was exited before; at
\* EXIT_ALL the exited quantities add up to quantity, and the total is the
\* P&L of the exit result and is recorded with the Risk Manager, once: the
\* position leaves the position manager and the risk manager in that step.
Thm_C29_PnlIsSumOfExits ==
    [][ /\ \A i \in DOMAIN positions' \ DOMAIN positions :
               /\ positions'[i].realized_pnl = 0
               /\ positions'[i].partial_exit_quantity = 0
               /\ positions'[i].remaining_quantity = positions'[i].quantity
        /\ \A i \in DOMAIN positions :
               LET p == positions[i]
               IN  IF i \in DOMAIN positions'
                   THEN LET after == positions'[i]
                            exited == p.remaining_quantity - after.remaining_quantity
                        IN  /\ after.quantity = p.quantity
                            /\ after.entry_premium = p.entry_premium
                            /\ exited >= 0
                            /\ after.partial_exit_quantity = p.partial_exit_quantity + exited
                            /\ after.partial_exit_quantity + after.remaining_quantity
                                   = after.quantity
                            /\ exited = 0 => after.realized_pnl = p.realized_pnl
                            /\ exited # 0 =>
                                   after.realized_pnl = p.realized_pnl
                                       + LegPnl(p, close_order'.price, exited)
                            /\ (i \in active_positions') = (i \in active_positions)
                   ELSE /\ i \notin active_positions'
                        /\ daily_loss' - daily_loss = weekly_loss' - weekly_loss
                        /\ \E q \in JustRecorded :
                               /\ q.position_id = i
                               /\ q.remaining_quantity = 0
                               /\ q.partial_exit_quantity + p.remaining_quantity = q.quantity
                               /\ q.realized_pnl = p.realized_pnl
                                      + LegPnl(p, close_order'.price, p.remaining_quantity)
                               /\ ExitAllResult(p, close_order'.price).pnl = q.realized_pnl
                               /\ daily_loss' = daily_loss + Max(0, 0 - q.realized_pnl)
      ]_vars

\* a position was closed at a loss on its last leg after a partial exit at
\* a profit: the total recorded is a profit
Wit_C29_ProfitThenStop ==
    \E q \in cycle.closed :
        /\ q.partial_exit_quantity > 0
        /\ q.partial_exit_quantity < q.quantity
        /\ q.exit_premium < q.entry_premium
        /\ q.realized_pnl > 0
        /\ q.position_id \notin active_positions

-----------------------------------------------------------------------------
(* Claims about the regime classifier *)

ClassifyAnswered ==
    /\ pure_call # NoPureCall
    /\ pure_call.fn = "classify"
    /\ pure_call.answered

\* the conditions the claim names, read off the snapshot of the call
IsVolatile ==
    \/ pure_call.md.vix > regime_vix_volatile
    \/ pure_call.md.atr_percentile > regime_atr_percentile_high
DiDiff == Abs(pure_call.md.di[1] - pure_call.md.di[2])
IsTrending ==
    /\ pure_call.md.adx > regime_adx_trending
    /\ pure_call.md.vix < regime_vix_volatile
    /\ DiDiff > 10
IsRanging ==
    /\ pure_call.md.adx < regime_adx_ranging
    /\ pure_call.md.vix < regime_vix_volatile
    /\ DiDiff < 5

\* C30: classify answers by the first match: VOLATILE whenever vix or the
\* ATR percentile is above its threshold, whatever ADX and DI are;
\* otherwise TRENDING exactly when ADX is above adx_trending, vix below
\* vix_volatile and the DI difference above 10; otherwise RANGING exactly
\* when ADX is below adx_ranging, vix below vix_volatile and the DI
\* difference below 5; otherwise CHOPPY; and never UNKNOWN.
Thm_C30_FirstMatch ==
    ClassifyAnswered =>
        /\ pure_call.regime # "UNKNOWN"
        /\ IsVolatile => pure_call.regime = "VOLATILE"
        /\ ~IsVolatile => (pure_call.regime = "TRENDING" <=> IsTrending)
        /\ (~IsVolatile /\ ~IsTrending) => (pure_call.regime = "RANGING" <=> IsRanging)
        /\ (~IsVolatile /\ ~IsTrending /\ ~IsRanging) => pure_call.regime = "CHOPPY"

\* a strong, clear trend in a calm VIX is VOLATILE for its ATR percentile
Wit_C30_VolatileBeatsTrend ==
    /\ ClassifyAnswered
    /\ pure_call.md.atr_percentile > regime_atr_percentile_high
    /\ IsTrending
    /\ pure_call.regime = "VOLATILE"

-----------------------------------------------------------------------------
(* Claims about the confidence of the regime *)

ConfidenceAnswered ==
    /\ pure_call # NoPureCall
    /\ pure_call.fn = "get_regime_confidence"
    /\ pure_call.answered

\* C31: for every snapshot each of the two sub-scores of
\* get_regime_confidence lies in [0, 1], so the confidence lies in
\* [0.3, 1.0] for TRENDING, RANGING and VOLATILE (also when VOLATILE comes
\* from the ATR percentile alone) and is 0.3 for CHOPPY.
Claim_C31_SubScoresInUnitInterval ==
    ConfidenceAnswered =>
        /\ \A i \in DOMAIN pure_call.sub :
               pure_call.sub[i] >= 0 /\ pure_call.sub[i] <= 100
        /\ pure_call.regime # "CHOPPY"
               => pure_call.confidence >= 3000 /\ pure_call.confidence <= 10000
        /\ pure_call.regime = "CHOPPY" => pure_call.confidence = 3000

-----------------------------------------------------------------------------
(* Claims about the iron-condor live loop *)

\* a step that is one iteration of run_live_loop with the market open
IterationStep == ic_clock' > ic_clock
\* the trades counted on the date of the loop, as the state file has them
TradesOn(day) ==
    IF ic_state.trades_today_date = day THEN ic_state.trades_today_count ELSE 0

\* C32: an iteration of run_live_loop attempts an entry only if the market
\* is open, the persisted position is flat, trades_today_count is below
\* max_trades_per_day and at least cooldown_minutes have passed since
\* last_exit_ts; the count starts again at 0 when the date changes and never
\* exceeds max_trades_per_day.
Thm_C32_EntryOnlyWhenAllowed ==
    [][IterationStep =>
          /\ ic_last'.ran =>
                /\ Weekday(today) < 5
                /\ ic_state.position = "flat"
                /\ TradesOn(today) < ic_cfg.max_trades_per_day
                /\ (ic_cfg.cooldown_minutes > 0 /\ ic_state.last_exit_ts # 0)
                      => Stamp(today, ic_clock) - ic_state.last_exit_ts
                            >= ic_cfg.cooldown_minutes
          /\ ic_state'.trades_today_date = today
          /\ ic_state'.trades_today_count \in {TradesOn(today), TradesOn(today) + 1}
          /\ ic_state'.trades_today_count <= ic_cfg.max_trades_per_day]_vars

\* the second trade of the day came after the cooldown and reached the cap:
\* the next iteration finds the position flat and attempts nothing
Wit_C32_CapReachedAfterCooldown ==
    /\ ic_cfg.cooldown_minutes > 0
    /\ ic_state.trades_today_date = today
    /\ ic_state.trades_today_count = ic_cfg.max_trades_per_day
    /\ ic_state.position = "flat"
    /\ ic_last.now >= ic_state.last_exit_ts + ic_cfg.cooldown_minutes
    /\ ~ic_last.ran

\* the last run of run_live sent the four entry orders to Kite and wrote
\* the active state
WentLive ==
    /\ ic_last.ran
    /\ ic_last.broker = "kite"
    /\ Len(ic_last.entry_orders) = Len(GoodLegs)

\* C40: in the live engine, once the state is set to active after the entry
\* orders are sent, an offsetting close order (opposite side, same symbol and
\* quantity) is placed for each of the four legs and the state is set back
\* to flat by the end of the iteration, also when the monitor ends without
\* take-profit or stop-loss or a broker call fails, so that the loop is not
\* blocked from entering again.
Claim_C40_ActiveIsClosedAndFlat ==
    WentLive =>
        /\ Len(ic_last.close_orders) = Len(ic_last.entry_orders)
        /\ \A i \in DOMAIN ic_last.close_orders :
               /\ ic_last.close_orders[i].symbol = ic_last.entry_orders[i].symbol
               /\ ic_last.close_orders[i].qty = ic_last.entry_orders[i].qty
               /\ ic_last.close_orders[i].side # ic_last.entry_orders[i].side
        /\ ic_state.position = "flat"

-----------------------------------------------------------------------------
(* Claims about the notifications *)

\* C33: send_immediate_alert never blocks its caller and never reads the
\* queue: the queue is never longer than queue_size, a message offered to a
\* full queue is dropped, and only the worker takes messages out, the oldest
\* first, without touching the positions, the risk counters or the state
\* file of the loop.
Thm_C33_BoundedQueueOneReader ==
    [][/\ Len(ic_notifier'.q) <= ic_notifier.queue_size
       /\ ic_notifier'.queue_size = ic_notifier.queue_size
       /\ \/ /\ ic_notifier'.q = ic_notifier.q
             /\ ic_notifier'.sent = ic_notifier.sent
             /\ (ic_notifier'.dropped /\ ~ic_notifier.dropped)
                    => Len(ic_notifier.q) = ic_notifier.queue_size
          \/ /\ ic_notifier.q # <<>>
             /\ ic_notifier'.q = Tail(ic_notifier.q)
             /\ ic_notifier'.sent = Head(ic_notifier.q)
             /\ UNCHANGED <<ic_state, ic_last, ic_clock, pmvars, rmvars>>
          \/ /\ Len(ic_notifier.q) < ic_notifier.queue_size
             /\ Len(ic_notifier'.q) = Len(ic_notifier.q) + 1
             /\ SubSeq(ic_notifier'.q, 1, Len(ic_notifier.q)) = ic_notifier.q
             /\ ic_notifier'.sent = ic_notifier.sent
             /\ ~ic_notifier'.dropped
       /\ (IterationStep /\ ic_last'.placed)
             => \/ ic_notifier'.dropped /\ ic_notifier'.q = ic_notifier.q
                \/ /\ ic_notifier'.q # <<>>
                   /\ ic_notifier'.q[Len(ic_notifier'.q)].at = ic_last'.now]_vars

\* the queue is full of alerts of the loop, the last alert was refused and
\* the worker has sent an earlier one
Wit_C33_DroppedWhileFull ==
    /\ ic_notifier.alerts
    /\ ic_notifier.dropped
    /\ Len(ic_notifier.q) = ic_notifier.queue_size
    /\ ic_notifier.sent # NoMessage
    /\ ic_last.placed
    /\ \A i \in DOMAIN ic_notifier.q : ic_notifier.q[i].at > ic_notifier.sent.at

-----------------------------------------------------------------------------
(* Claims about the quantities of an exit *)

\* a step of check_exits whose close order the broker accepted
ExitApplied ==
    /\ Len(exit_queue') < Len(exit_queue)
    /\ close_order' # NoOrder
    /\ close_order'.ok
\* what is left of position i after the step
RemainingAfter(i) ==
    IF i \in DOMAIN positions' THEN positions'[i].remaining_quantity ELSE 0

\* C34: for every exit applied in the orchestrator, the quantity sent to the
\* broker in close_position is the quantity by which the Position Manager
\* reduces remaining_quantity for that exit.
Claim_C34_BrokerQuantityIsManagersQuantity ==
    [][ExitApplied =>
          close_order'.quantity =
              positions[close_order'.id].remaining_quantity
                  - RemainingAfter(close_order'.id)]_vars

-----------------------------------------------------------------------------
(* Claims about the stop of a position *)

\* C35: for any open position, whenever the current premium is at or below
\* the position's stop_loss field (entry_premium x (1 - stop_loss_pct) at
\* creation, entry_premium once a partial exit has moved the stop to
\* breakeven), check_exits returns EXIT_ALL.
Claim_C35_StopFieldIsHonoured ==
    (exit_call # NoExitCall /\ exit_call.answered
        /\ exit_call.premium <= exit_call.position.stop_loss)
        => exit_call.signal.action = "EXIT_ALL"

-----------------------------------------------------------------------------
(* Claims about the kill-switch *)

\* the step of check_entries in which should_close_all_positions, with the
\* counters brought to the day, returns true
KillSwitchFires ==
    /\ pc = "cycle"
    /\ pc' = "sleep"
    /\ should_close_all_positions(daily_loss', weekly_loss')

\* C36: in a cycle in which should_close_all_positions returns true, a
\* close is initiated for every open position before the cycle ends: each
\* position still open when check_entries returns had its close order sent
\* in the cycle.
Claim_C36_KillSwitchClosesAll ==
    [][KillSwitchFires => DOMAIN positions' \subseteq cycle.closing]_vars

-----------------------------------------------------------------------------
(* Claims about the scoring of a signal *)

\* C37: the factor flags passed to the Confidence Scorer for a signal are
\* those the detector computed for the signal's direction: a PUT signal of
\* detect_bearish_momentum is scored with the bearish trend, rsi and iv
\* flags, so a signal whose three factors hold gets the full factor score.
Claim_C37_FactorsOfTheDirection ==
    (pure_call # NoPureCall /\ pure_call.fn = "signal" /\ pure_call.detected)
        => /\ pure_call.direction = "CALL"
                 => pure_call.factors = BullishFactors(pure_call.md)
           /\ pure_call.direction = "PUT"
                 => pure_call.factors = BearishFactors(pure_call.md)
           /\ AllFactors(pure_call.factors)

-----------------------------------------------------------------------------
(* Claims about the quantities of a position *)

\* C38: whatever exits were applied, the quantity of every position is a
\* positive multiple of lot_size, and its remaining_quantity is a
\* non-negative multiple of lot_size that never exceeds the quantity.
Thm_C38_QuantitiesAreWholeLots ==
    \A i \in DOMAIN positions :
        /\ positions[i].quantity > 0
        /\ positions[i].quantity % instrument_lot_size = 0
        /\ positions[i].remaining_quantity >= 0
        /\ positions[i].remaining_quantity % instrument_lot_size = 0
        /\ positions[i].remaining_quantity <= positions[i].quantity

\* a partial exit whose truncated share was not a whole number of lots
Wit_C38_PartialExitRoundedToLots ==
    \E i \in DOMAIN positions :
        /\ positions[i].partial_exit_done
        /\ positions[i].remaining_quantity > 0
        /\ positions[i].partial_exit_quantity
               # PartialExitQuantity_Unrounded(positions[i].quantity, partial_exit_pct)

-----------------------------------------------------------------------------
(* Claims about the scan of run_live *)

\* the reasons of a validation as a set
ReasonSet(result) == {result.reasons[j] : j \in DOMAIN result.reasons}

\* C39: the strikes of a non-empty candidate chosen by the scan pass the
\* OTM-balance and OTM-distance-bound checks of validate_balanced_ic, so the
\* candidate is never rejected by the validation.
Claim_C39_ScannedCandidateIsValid ==
    (pure_call # NoPureCall /\ pure_call.fn = "scan" /\ pure_call.at = "done"
     /\ pure_call.scanned /\ pure_call.ic.legs # <<>>)
        => /\ ReasonSet(pure_call.result)
                 \cap {"balance", "put_distance", "call_distance"} = {}
           /\ pure_call.result.ok

====
